---------------------------- MODULE Spec2Model ----------------------------
(***************************************************************************)
(* A model of pisa-engine/ciff: the binary-collection reader               *)
(* (src/src/binary_collection.rs), the payload vector                      *)
(* (src/src/payload_vector.rs) and the conversions of src/src/lib.rs.      *)
(*                                                                         *)
(* Integer widths.  TLC's integers are 32 bits wide, so the byte is scaled *)
(* down to ByteBits bits while every layout fact of the code is kept: a    *)
(* u32/i32 is 4 bytes, a u64/i64/usize is 8 bytes, little-endian.          *)
(*                                                                         *)
(* The tfs and docids of the conversion from JSONL are not scaled: its     *)
(* quantization range is the 1 .. 255 of the code.                         *)
(*                                                                         *)
(* Every component has its own specification (SpecBC, SpecPV, SpecC2P,     *)
(* SpecP2C, SpecRT, SpecJ2C); the variable `comp` says which component the *)
(* behaviour exercises, and the variables of the other components stay at  *)
(* their idle values.                                                      *)
(***************************************************************************)
EXTENDS Integers, Sequences, FiniteSets, TLC

\* ------------------------------------------------------------------ bounds
\* Width of the scaled byte, in bits.
ByteBits == 2
\* Most 4-byte words the writer of a binary collection holds.
MaxWords == 4
\* Most elements one encode_u32_sequence call is given.
MaxSeqLen == 2
\* Most calls of Iterator::next on one BinaryCollection.
MaxNexts == 6
\* Most byte strings collected into one PayloadVector.
MaxItems == 2
\* Most bytes of the text file build_lexicon reads.
MaxText == 4
\* PostingsList messages a CIFF stream holds at most.
MaxLists == 3
\* DocRecord messages a CIFF stream holds at most.
MaxRecords == 2
\* PostingsLists, and DocRecords, of a stream a round trip starts from.
MaxRoundTrip == 2
\* Lines of a JSONL input file.
MaxLines == 2

\* --------------------------------------------------------- machine integers
Radix == 2 ^ ByteBits
Byte == 0 .. (Radix - 1)
U32_MOD == Radix ^ 4
U32_MAX == U32_MOD - 1
I32_MAX == (U32_MOD \div 2) - 1
I32_MIN == 0 - (U32_MOD \div 2)
U64_MOD == Radix ^ 8
U64_MAX == U64_MOD - 1
USIZE_MAX == U64_MAX

\* std::mem::size_of::<u32>()
ELEMENT_SIZE == 4

\* u32::to_le_bytes / u64::to_le_bytes: n bytes, least significant first.
to_le_bytes(v, n) == [i \in 1 .. n |-> (v \div (Radix ^ (i - 1))) % Radix]

\* u32::from_le_bytes / u64::from_le_bytes.
RECURSIVE from_le_bytes(_)
from_le_bytes(bytes) ==
    IF bytes = <<>> THEN 0
    ELSE Head(bytes) + Radix * from_le_bytes(Tail(bytes))

\* <[u8]>::get(a..b): None unless a <= b <= len.  Positions are 0-based.
NoSlice == [some |-> FALSE, bytes |-> <<>>]
slice_get(bytes, a, b) ==
    IF a <= b /\ b <= Len(bytes)
    THEN [some |-> TRUE, bytes |-> SubSeq(bytes, a + 1, b)]
    ELSE NoSlice

\* ---------------------------------------------------------------- state
VARIABLES
    comp,       \* the component this behaviour exercises
    pc,         \* position of the component's driver
    writer,     \* BC: the Vec<u8> the sequences are encoded into
    calls,      \* BC: the encode_u32_sequence calls made, [len, seq] each
    tail,       \* BC: the stray bytes written after them
    coll,       \* BC: BinaryCollection.bytes, the unread rest of the buffer
    items,      \* BC: what the calls of next returned, oldest first
    rac,        \* BC: the RandomAccessBinaryCollection, or its error
    sequence,   \* BC: the BinarySequence under access
    got,        \* BC: the last access made and its result
    overflow_checks, \* whether the build panics on integer overflow
    pv_text,    \* PV: content of the text file build_lexicon reads
    pv_items,   \* PV: the byte strings collected into the PayloadVector
    pv_data,    \* PV: PayloadVector.data, the owned bytes
    pv_file,    \* PV: the bytes written, viewed through PayloadSlice::new
    pv_acc,     \* PV: the last access, made on the vector and on the slice
    builder,       \* C2P: the CiffToPisa the conversion is built with
    last_setter,   \* C2P: the last call made among output_paths and skip_lexicons
    ciff_header,   \* C2P: the proto::Header at the head of the CIFF stream
    header,        \* C2P: what Header::from_stream returned
    postings_read, \* C2P: the PostingsList messages read, oldest first
    records_read,  \* C2P: the DocRecord messages read, oldest first
    output,        \* C2P: the output files, and the bytes written to each
    c2p_result,    \* C2P: how convert_to_pisa ended, or "running"
    written,       \* C2P: the output files as they were after the record loop
    order,         \* C2P: the order computed by reorder_pisa_index
    reordered,     \* C2P: whether reorder_pisa_index was entered
    lexicons,      \* C2P: the term lexicon and the document lexicon
    pisa,          \* P2C: the mapped PISA files pisa_to_ciff_from_paths reads
    ciff,          \* P2C: the output file, and the messages handed to its stream
    p2c_result,    \* P2C: how pisa_to_ciff_from_paths ended, or "running"
    rt_input,      \* RT: the CIFF stream the round trip starts from
    rt_a,          \* RT: the first CIFF to PISA conversion, its end and files
    rt_b,          \* RT: the second one, run on the CIFF made of the first
    jsonl,         \* J2C: the lines of the JSONL input file
    quantize,      \* J2C: JsonlToCiff.quantize
    score_range,   \* J2C: the first pass: lines read, min_val and max_val
    j2c,           \* J2C: the locals of the second pass of convert
    j2c_ciff,      \* J2C: the output file, and the messages written to it
    j2c_result     \* J2C: how convert ended, or "running"

bcvars == <<writer, calls, tail, coll, items, rac, sequence, got>>
pvvars == <<overflow_checks, pv_text, pv_items, pv_data, pv_file, pv_acc>>
postvars == <<written, order, reordered, lexicons>>
buildvars == <<builder, last_setter>>
c2pvars == <<buildvars, ciff_header, header, postings_read, records_read, output,
            c2p_result, postvars>>
p2cvars == <<pisa, ciff, p2c_result, rt_input, rt_a, rt_b>>
j2cvars == <<jsonl, quantize, score_range, j2c, j2c_ciff, j2c_result>>
vars == <<comp, pc, bcvars, pvvars, c2pvars, p2cvars, j2cvars>>

\* ------------------------------------------------------------ idle values
NoAcc == [op |-> "none", index |-> 0, owned |-> [kind |-> "None", val |-> <<>>],
          slice |-> [kind |-> "None", val |-> <<>>]]

PVIdle ==
    /\ overflow_checks = TRUE
    /\ pv_text = <<>>
    /\ pv_items = <<>>
    /\ pv_data = <<>>
    /\ pv_file = <<>>
    /\ pv_acc = NoAcc

\* No header read yet; a file that does not exist, and one just created.
NoHeader == [kind |-> "None", num_documents |-> 0, num_postings_lists |-> 0]
NoFile == [created |-> FALSE, bytes |-> <<>>]
NewFile == [created |-> TRUE, bytes |-> <<>>]
NoOutput ==
    [documents |-> NoFile, frequencies |-> NoFile, terms |-> NoFile,
     sizes |-> NoFile, titles |-> NoFile]

NoLexicons == [termlex |-> NoFile, doclex |-> NoFile]

\* CiffToPisa::default(): every path is None (FALSE), Some(path) is TRUE.
CiffToPisa_default ==
    [input |-> FALSE, documents_path |-> FALSE, frequencies_path |-> FALSE,
     sizes_path |-> FALSE, terms_path |-> FALSE, titles_path |-> FALSE,
     termlex_path |-> FALSE, doclex_path |-> FALSE]

C2PIdle ==
    /\ builder = CiffToPisa_default
    /\ last_setter = "none"
    /\ ciff_header = [present |-> FALSE, num_docs |-> 0, num_postings_lists |-> 0]
    /\ header = NoHeader
    /\ postings_read = <<>>
    /\ records_read = <<>>
    /\ output = NoOutput
    /\ c2p_result = "running"
    /\ written = NoOutput
    /\ order = <<>>
    /\ reordered = FALSE
    /\ lexicons = NoLexicons

\* No PISA files mapped, no proto::Header built, no CIFF file, no conversion
\* run.
NoPisa ==
    [documents |-> <<>>, frequencies |-> <<>>, terms |-> <<>>, sizes |-> <<>>,
     titles |-> <<>>]
NoProtoHeader ==
    [kind |-> "None", num_postings_lists |-> 0, total_postings_lists |-> 0,
     total_terms_in_collection |-> 0, num_docs |-> 0, total_docs |-> 0,
     average_doclength |-> [class |-> "finite", num |-> 0, den |-> 1]]
NoCiff == [created |-> FALSE, header |-> NoProtoHeader, postings |-> <<>>, records |-> <<>>]
NoRun == [kind |-> "none", output |-> NoOutput]

\* f64::INFINITY, f64::NEG_INFINITY and a finite f64; the scores of the
\* model are whole numbers of halves, val = 3 being 1.5.
F64Inf == [class |-> "inf", val |-> 0]
F64NegInf == [class |-> "-inf", val |-> 0]
F64(v) == [class |-> "finite", val |-> v]

\* No line read by either pass of JsonlToCiff::convert.
NoRange == [lines_read |-> 0, min_val |-> F64Inf, max_val |-> F64NegInf]
NoLocals ==
    [lines_read |-> 0, min_score |-> 0, max_score |-> 0, doc_records |-> <<>>,
     postings_map |-> <<>>, total_terms_in_collection |-> 0, docid_map |-> {},
     current_docid |-> 0 - 1, max_docid |-> 0 - 1, terms |-> <<>>]

J2CIdle ==
    /\ jsonl = <<>>
    /\ quantize = FALSE
    /\ score_range = NoRange
    /\ j2c = NoLocals
    /\ j2c_ciff = NoCiff
    /\ j2c_result = "running"

P2CIdle ==
    /\ pisa = NoPisa
    /\ ciff = NoCiff
    /\ p2c_result = "running"
    /\ rt_input = NoCiff
    /\ rt_a = NoRun
    /\ rt_b = NoRun

\* ========================================================================
\* Binary collection (src/src/binary_collection.rs, encode_u32_sequence)
\* ========================================================================

\* The u32 values the model draws lengths and elements from.  U32_MAX - 1
\* has distinct low and high bytes, so a byte-order slip changes it.
U32Vals == {0, 1, 2, U32_MAX - 1}

RECURSIVE SeqsUpTo(_, _)
SeqsUpTo(S, n) ==
    IF n = 0 THEN {<<>>}
    ELSE LET shorter == SeqsUpTo(S, n - 1)
         IN  shorter \cup {Append(s, x) : s \in {t \in shorter : Len(t) = n - 1}, x \in S}

RECURSIVE Flatten(_)
Flatten(ss) == IF ss = <<>> THEN <<>> ELSE Head(ss) \o Flatten(Tail(ss))

\* Faulty variant: the elements are written most significant byte first.
encode_u32_sequence_be(len, seq) ==
    to_le_bytes(len, 4) \o
    Flatten([i \in 1 .. Len(seq) |-> [j \in 1 .. 4 |-> to_le_bytes(seq[i], 4)[5 - j]]])

\* encode_u32_sequence: the bytes appended to the writer.
encode_u32_sequence(len, seq) ==
    to_le_bytes(len, 4) \o Flatten([i \in 1 .. Len(seq) |-> to_le_bytes(seq[i], 4)])

\* Results.  kind is "Ok", "Err" (InvalidFormat), "None" or "Panic".
NoSeq == [bytes |-> <<>>, length |-> 0]
Ok(s) == [kind |-> "Ok", seq |-> s]
Err == [kind |-> "Err", seq |-> NoSeq]
None == [kind |-> "None", seq |-> NoSeq]
Panic == [kind |-> "Panic", seq |-> NoSeq]

\* BinaryCollection::try_from: only the length of the buffer is looked at.
bc_try_from(bytes) ==
    IF Len(bytes) % ELEMENT_SIZE = 0 THEN "Ok" ELSE "InvalidFormat"

\* Faulty variant: the length word is not counted in the bytes a sequence needs.
get_from_short(bytes) ==
    LET length_bytes == slice_get(bytes, 0, ELEMENT_SIZE)
    IN  IF ~length_bytes.some THEN Err
        ELSE LET length == from_le_bytes(length_bytes.bytes)
                 body == slice_get(bytes, ELEMENT_SIZE, ELEMENT_SIZE * length)
             IN  IF ~body.some THEN Err
                 ELSE Ok([bytes |-> body.bytes, length |-> length])

\* get_from: the sequence at the start of bytes.
get_from(bytes) ==
    LET length_bytes == slice_get(bytes, 0, ELEMENT_SIZE)
    IN  IF ~length_bytes.some THEN Err
        ELSE LET length == from_le_bytes(length_bytes.bytes)
                 body == slice_get(bytes, ELEMENT_SIZE, ELEMENT_SIZE * (length + 1))
             IN  IF ~body.some THEN Err
                 ELSE Ok([bytes |-> body.bytes, length |-> length])

\* Faulty variant: the cursor moves one element too far.
get_next_skip(bytes) ==
    LET r == get_from(bytes)
    IN  IF r.kind = "Err" THEN [result |-> Err, bytes |-> bytes]
        ELSE [result |-> r,
              bytes |-> IF ELEMENT_SIZE * (r.seq.length + 2) >= Len(bytes) THEN <<>>
                        ELSE SubSeq(bytes, ELEMENT_SIZE * (r.seq.length + 2) + 1, Len(bytes))]

\* get_next: the result and the collection's bytes afterwards.
get_next(bytes) ==
    LET r == get_from(bytes)
    IN  IF r.kind = "Err" THEN [result |-> Err, bytes |-> bytes]
        ELSE [result |-> r,
              bytes |-> SubSeq(bytes, ELEMENT_SIZE * (r.seq.length + 1) + 1, Len(bytes))]

\* Iterator::next for BinaryCollection.
bc_next(bytes) ==
    IF bytes = <<>> THEN [result |-> None, bytes |-> bytes]
    ELSE get_next(bytes)

\* Faulty variant: the index is not compared with the length.
sequence_get_unchecked(s, index) ==
    LET offset == index * 4
    IN  IF offset > USIZE_MAX - 4 THEN [kind |-> "Panic", val |-> 0]
        ELSE LET b == slice_get(s.bytes, offset, offset + 4)
             IN  IF b.some THEN [kind |-> "Some", val |-> from_le_bytes(b.bytes)]
                 ELSE [kind |-> "None", val |-> 0]

\* BinarySequence::get.  index * 4 and offset + 4 are usize arithmetic: past
\* USIZE_MAX the checked build panics.
sequence_get(s, index) ==
    IF index < s.length
    THEN LET offset == index * 4
         IN  IF offset > USIZE_MAX - 4 THEN [kind |-> "Panic", val |-> 0]
             ELSE LET b == slice_get(s.bytes, offset, offset + 4)
                  IN  IF b.some THEN [kind |-> "Some", val |-> from_le_bytes(b.bytes)]
                      ELSE [kind |-> "None", val |-> 0]
    ELSE [kind |-> "None", val |-> 0]

\* BinarySequence::iter().collect(): get(0), get(1), ... until None.
RECURSIVE sequence_iter(_, _)
sequence_iter(s, index) ==
    LET r == sequence_get(s, index)
    IN  IF r.kind = "None" THEN <<>>
        ELSE <<r.val>> \o sequence_iter(s, index + 1)

\* BinarySequence::try_from.
sequence_try_from(bytes) ==
    IF Len(bytes) % 4 = 0
    THEN Ok([bytes |-> bytes, length |-> Len(bytes) \div 4])
    ELSE Err

\* Faulty variant: the offset grows by the elements only.
RECURSIVE scan_offsets_len(_, _)
scan_offsets_len(bytes, offset) ==
    LET n == bc_next(bytes)
    IN  IF n.result.kind = "None" THEN [ok |-> TRUE, offsets |-> <<>>]
        ELSE IF n.result.kind = "Err" THEN [ok |-> FALSE, offsets |-> <<>>]
        ELSE LET rest == scan_offsets_len(n.bytes, offset + ELEMENT_SIZE * n.result.seq.length)
             IN  IF rest.ok THEN [ok |-> TRUE, offsets |-> <<offset>> \o rest.offsets]
                 ELSE rest

\* The scan of RandomAccessBinaryCollection::try_from: the offsets of the
\* sequences of bytes, the first at offset; ok is FALSE once a sequence is an
\* error (collect::<Result<Vec<_>, _>>() stops there).
RECURSIVE scan_offsets(_, _)
scan_offsets(bytes, offset) ==
    LET n == bc_next(bytes)
    IN  IF n.result.kind = "None" THEN [ok |-> TRUE, offsets |-> <<>>]
        ELSE IF n.result.kind = "Err" THEN [ok |-> FALSE, offsets |-> <<>>]
        ELSE LET rest == scan_offsets(n.bytes, offset + ELEMENT_SIZE * (n.result.seq.length + 1))
             IN  IF rest.ok THEN [ok |-> TRUE, offsets |-> <<offset>> \o rest.offsets]
                 ELSE rest

NoRac == [state |-> "none", inner |-> <<>>, offsets |-> <<>>]

\* RandomAccessBinaryCollection::try_from.
rac_try_from(bytes) ==
    IF bc_try_from(bytes) # "Ok" THEN [state |-> "InvalidFormat", inner |-> <<>>, offsets |-> <<>>]
    ELSE LET scan == scan_offsets(bytes, 0)
         IN  IF ~scan.ok
             THEN [state |-> "InvalidFormat", inner |-> <<>>, offsets |-> <<>>]
             ELSE [state |-> "Ok", inner |-> bytes, offsets |-> scan.offsets]

\* Faulty variant: the last index is taken for out of bounds.
rac_get_fencepost(c, index) ==
    IF index + 1 >= Len(c.offsets) THEN None
    ELSE LET byte_offset == c.offsets[index + 1]
         IN  IF byte_offset > Len(c.inner) THEN None
             ELSE LET r == get_from(SubSeq(c.inner, byte_offset + 1, Len(c.inner)))
                  IN  IF r.kind = "Ok" THEN r ELSE Panic

\* RandomAccessBinaryCollection::get.
rac_get(c, index) ==
    IF index >= Len(c.offsets) THEN None
    ELSE LET byte_offset == c.offsets[index + 1]
         IN  IF byte_offset > Len(c.inner) THEN None
             ELSE LET r == get_from(SubSeq(c.inner, byte_offset + 1, Len(c.inner)))
                  IN  IF r.kind = "Ok" THEN r ELSE Panic

\* RandomAccessBinaryCollection::at.
rac_at(c, index) ==
    LET r == rac_get(c, index)
    IN  IF r.kind = "Ok" THEN r ELSE Panic

\* ------------------------------------------------------------ BC actions
NoGot == [op |-> "none", index |-> 0, result |-> [kind |-> "None", val |-> 0]]

BCIdle ==
    /\ writer = <<>>
    /\ calls = <<>>
    /\ tail = <<>>
    /\ coll = <<>>
    /\ items = <<>>
    /\ rac = NoRac
    /\ sequence = NoSeq
    /\ got = NoGot

InitBC ==
    /\ comp = "bc"
    /\ J2CIdle
    /\ pc = "write"
    /\ BCIdle
    /\ PVIdle
    /\ C2PIdle
    /\ P2CIdle

\* encode_u32_sequence(&mut writer, len, seq): called with len = |seq|, as
\* the tests do, or with a len that promises elements that are not written.
Encode(len, seq) ==
    /\ comp = "bc" /\ pc = "write"
    /\ Len(writer) + ELEMENT_SIZE * (1 + Len(seq)) <= ELEMENT_SIZE * MaxWords
    /\ writer' = writer \o encode_u32_sequence(len, seq)
    /\ calls' = Append(calls, [len |-> len, seq |-> seq])
    /\ UNCHANGED <<comp, j2cvars, pc, tail, coll, items, rac, sequence, got, pvvars, c2pvars, p2cvars>>

\* n stray bytes after the sequences: a file that was cut short, or is not
\* a binary collection at all.
WriteTail(n) ==
    /\ comp = "bc" /\ pc = "write"
    /\ writer' = writer \o [i \in 1 .. n |-> 1]
    /\ tail' = [i \in 1 .. n |-> 1]
    /\ pc' = "cut"
    /\ UNCHANGED <<comp, j2cvars, calls, coll, items, rac, sequence, got, pvvars, c2pvars, p2cvars>>

\* BinaryCollection::try_from(&writer[..])
TryFrom ==
    /\ comp = "bc" /\ pc \in {"write", "cut"}
    /\ IF bc_try_from(writer) = "Ok"
       THEN pc' = "iter" /\ coll' = writer
       ELSE pc' = "invalid" /\ coll' = coll
    /\ UNCHANGED <<comp, j2cvars, writer, calls, tail, items, rac, sequence, got, pvvars, c2pvars, p2cvars>>

\* collection.next()
Next_ ==
    /\ comp = "bc" /\ pc = "iter"
    /\ Len(items) < MaxNexts
    /\ LET n == bc_next(coll)
       IN  /\ items' = Append(items, n.result)
           /\ coll' = n.bytes
    /\ UNCHANGED <<comp, j2cvars, pc, writer, calls, tail, rac, sequence, got, pvvars, c2pvars, p2cvars>>

\* RandomAccessBinaryCollection::try_from(&writer[..])
RacTryFrom ==
    /\ comp = "bc" /\ pc \in {"write", "cut"}
    /\ rac' = rac_try_from(writer)
    /\ pc' = "rac"
    /\ UNCHANGED <<comp, j2cvars, writer, calls, tail, coll, items, sequence, got, pvvars, c2pvars, p2cvars>>

\* collection.get(index) and collection.at(index)
RacLookup(op, index) ==
    /\ comp = "bc" /\ pc = "rac"
    /\ rac.state = "Ok"
    /\ got.op = "none"
    /\ LET r == IF op = "get" THEN rac_get(rac, index) ELSE rac_at(rac, index)
       IN  /\ got' = [op |-> op, index |-> index, result |-> [kind |-> r.kind, val |-> 0]]
           /\ sequence' = r.seq
    /\ UNCHANGED <<comp, j2cvars, pc, writer, calls, tail, coll, items, rac, pvvars, c2pvars, p2cvars>>

\* BinarySequence { bytes: &writer, length }: the struct as the module's
\* own tests build it, and BinarySequence::try_from(&writer[..]).
SeqLiteral(length) ==
    /\ comp = "bc" /\ pc \in {"write", "cut"}
    /\ sequence' = [bytes |-> writer, length |-> length]
    /\ pc' = "seq"
    /\ UNCHANGED <<comp, j2cvars, writer, calls, tail, coll, items, rac, got, pvvars, c2pvars, p2cvars>>

SeqTryFrom ==
    /\ comp = "bc" /\ pc \in {"write", "cut"}
    /\ LET r == sequence_try_from(writer)
       IN  /\ sequence' = r.seq
           /\ pc' = IF r.kind = "Ok" THEN "seq" ELSE "seq_invalid"
    /\ UNCHANGED <<comp, j2cvars, writer, calls, tail, coll, items, rac, got, pvvars, c2pvars, p2cvars>>

\* sequence.get(index)
SeqGet(index) ==
    /\ comp = "bc" /\ pc = "seq"
    /\ got.op = "none"
    /\ got' = [op |-> "seq_get", index |-> index, result |-> sequence_get(sequence, index)]
    /\ UNCHANGED <<comp, j2cvars, pc, writer, calls, tail, coll, items, rac, sequence, pvvars, c2pvars, p2cvars>>

\* The usize indices the accesses are made with.
RacIndexVals == (0 .. (Len(rac.offsets) + 1)) \cup {USIZE_MAX}
SeqIndexVals == {0, 1, 2, U32_MAX - 2, USIZE_MAX}

NextBC ==
    \/ \E len \in U32Vals, seq \in SeqsUpTo(U32Vals, MaxSeqLen) :
          /\ len = Len(seq) \/ seq = <<>>
          /\ Encode(len, seq)
    \/ \E n \in 1 .. (ELEMENT_SIZE - 1) : WriteTail(n)
    \/ TryFrom
    \/ Next_
    \/ RacTryFrom
    \/ \E op \in {"get", "at"}, index \in RacIndexVals : RacLookup(op, index)
    \/ \E length \in U32Vals : SeqLiteral(length)
    \/ SeqTryFrom
    \/ \E index \in SeqIndexVals : SeqGet(index)

SpecBC == InitBC /\ [][NextBC]_vars

\* ---------------------------------------------------- BC: the claims
\* The little-endian u32 at the 0-based byte offset k of bytes, written out.
LeWordAt(bytes, k) ==
    bytes[k + 1] + Radix * bytes[k + 2] + Radix * Radix * bytes[k + 3]
        + Radix * Radix * Radix * bytes[k + 4]

\* Every encode call was handed as many elements as its len says, and no
\* stray byte follows.
WellFormedCalls ==
    /\ tail = <<>>
    /\ \A i \in 1 .. Len(calls) : calls[i].len = Len(calls[i].seq)

\* C1: a buffer built by encode_u32_sequence(writer, |s_i|, s_i) for s_1..s_k
\* is accepted by BinaryCollection::try_from, and iteration yields exactly k
\* Ok sequences, the i-th with len() = |s_i| and the elements of s_i in
\* order, and then the end of the iteration.
C1_RoundTrip ==
    (comp = "bc" /\ WellFormedCalls) =>
        /\ pc # "invalid"
        /\ pc = "iter" =>
              \A i \in 1 .. Len(items) :
                  IF i <= Len(calls)
                  THEN /\ items[i].kind = "Ok"
                       /\ items[i].seq.length = Len(calls[i].seq)
                       /\ sequence_iter(items[i].seq, 0) = calls[i].seq
                  ELSE items[i].kind = "None"

C1_Witness ==
    /\ comp = "bc" /\ pc = "iter" /\ WellFormedCalls
    /\ Len(calls) = 2
    /\ calls[1].seq = <<U32_MAX - 1, 1>>
    /\ Len(items) = 3
    /\ items[3].kind = "None"

\* C2: BinarySequence::get(index) never panics; it is Some of the
\* little-endian u32 at bytes[4*index .. 4*index+4] when index < length and
\* those bytes lie inside the buffer, and None in every other case.
C2_GetNeverPanics ==
    (comp = "bc" /\ got.op = "seq_get") =>
        /\ got.result.kind # "Panic"
        /\ IF got.index < sequence.length /\ 4 * got.index + 4 <= Len(sequence.bytes)
           THEN got.result = [kind |-> "Some", val |-> LeWordAt(sequence.bytes, 4 * got.index)]
           ELSE got.result = [kind |-> "None", val |-> 0]

\* A length field that claims more elements than the buffer holds.
C2_Witness ==
    /\ comp = "bc" /\ got.op = "seq_get"
    /\ got.index < sequence.length
    /\ 4 * got.index + 4 > Len(sequence.bytes)
    /\ Len(sequence.bytes) % 4 # 0
    /\ got.result.kind = "None"

\* The step is a call of BinaryCollection::try_from, of next.
IsTryFrom == comp = "bc" /\ pc \in {"write", "cut"} /\ pc' \in {"iter", "invalid"}
IsNext == comp = "bc" /\ pc = "iter" /\ Len(items') = Len(items) + 1
Yielded == items'[Len(items')]

\* C3: try_from is InvalidFormat exactly when the buffer length is no
\* multiple of 4, whatever the content; on an accepted buffer with bytes
\* left, next is Err exactly when fewer than 4 + 4*n bytes are left, n the
\* length declared in the next 4 bytes, and Ok otherwise.
C3_ErrorConditions ==
    [][ /\ IsTryFrom =>
              /\ pc' = "invalid" <=> Len(writer) % 4 # 0
              /\ pc' = "iter" => coll' = writer
        /\ (IsNext /\ coll # <<>>) =>
              /\ Len(coll) >= 4
              /\ Yielded.kind = "Err" <=> Len(coll) < 4 + 4 * LeWordAt(coll, 0)
              /\ Yielded.kind = "Ok" <=> Len(coll) >= 4 + 4 * LeWordAt(coll, 0)
      ]_vars

\* A sequence was read, and the next one declares more than is left.
C3_Witness ==
    /\ comp = "bc" /\ pc = "iter"
    /\ Len(items) = 2
    /\ items[1].kind = "Ok" /\ items[1].seq.length = 1
    /\ items[2].kind = "Err"
    /\ Len(coll) = 8 /\ LeWordAt(coll, 0) = 2

\* C4: a next that yields a sequence of declared length n moves the cursor
\* forward by exactly 4 + 4*n bytes; a next that yields InvalidFormat leaves
\* it where it is, so every later next yields the error again; next yields
\* the end of the iteration exactly when no byte is left; and a buffer that
\* yields no error is exhausted after at most one next per 4 bytes.
C4_ForwardCursor ==
    [][ IsNext =>
          /\ Yielded.kind = "Ok" =>
                /\ Len(coll') = Len(coll) - (4 + 4 * Yielded.seq.length)
                /\ coll' = SubSeq(coll, Len(coll) - Len(coll') + 1, Len(coll))
                /\ Yielded.seq.length = LeWordAt(coll, 0)
          /\ Yielded.kind = "Err" => coll' = coll
          /\ Yielded.kind = "None" <=> coll = <<>>
          /\ Yielded.kind = "None" => coll' = coll
          /\ \A i \in 1 .. Len(items) : items[i].kind = "Err" => Yielded.kind = "Err"
          /\ ( /\ \A i \in 1 .. Len(items') : items'[i].kind # "Err"
               /\ 4 * Len(items') > Len(writer) )
             => (coll' = <<>> /\ Yielded.kind = "None")
      ]_vars

\* A sequence of two elements was consumed, then the same error came twice.
C4_Witness ==
    /\ comp = "bc" /\ pc = "iter"
    /\ Len(items) = 3
    /\ items[1].kind = "Ok" /\ items[1].seq.length = 2
    /\ items[2].kind = "Err" /\ items[3].kind = "Err"
    /\ Len(coll) = 4

\* The 4-byte words of an aligned buffer, and the lengths of its sequences
\* when every declared length fits in the words that follow it.
WordsOf(bytes) == [i \in 1 .. (Len(bytes) \div 4) |-> LeWordAt(bytes, 4 * (i - 1))]

RECURSIVE WordsWellFormed(_)
WordsWellFormed(w) ==
    \/ w = <<>>
    \/ /\ w[1] + 1 <= Len(w)
       /\ WordsWellFormed(SubSeq(w, w[1] + 2, Len(w)))

RECURSIVE LengthsOf(_)
LengthsOf(w) ==
    IF w = <<>> THEN <<>>
    ELSE <<w[1]>> \o LengthsOf(SubSeq(w, w[1] + 2, Len(w)))

RECURSIVE SumTo(_, _)
SumTo(lens, i) == IF i = 0 THEN 0 ELSE 4 * (lens[i] + 1) + SumTo(lens, i - 1)

BufferWellFormed == Len(writer) % 4 = 0 /\ WordsWellFormed(WordsOf(writer))

\* C5: RandomAccessBinaryCollection::try_from on a well-formed buffer with
\* sequence lengths len_0..len_{k-1} records exactly k offsets, offsets[i]
\* the sum over j < i of 4*(len_j + 1); on any other buffer it returns
\* InvalidFormat and no collection.
C5_Offsets ==
    (comp = "bc" /\ pc = "rac") =>
        IF BufferWellFormed
        THEN LET lens == LengthsOf(WordsOf(writer))
             IN  /\ rac.state = "Ok"
                 /\ rac.inner = writer
                 /\ Len(rac.offsets) = Len(lens)
                 /\ \A i \in 1 .. Len(lens) : rac.offsets[i] = SumTo(lens, i - 1)
                 /\ WellFormedCalls =>
                       \A i \in 1 .. Len(calls) : lens[i] = Len(calls[i].seq)
        ELSE rac.state = "InvalidFormat" /\ rac.offsets = <<>> /\ rac.inner = <<>>

C5_Witness ==
    /\ comp = "bc" /\ pc = "rac" /\ rac.state = "Ok"
    /\ WellFormedCalls
    /\ rac.offsets = <<0, 12>>

\* The i-th item (0-based) of a forward iteration over bytes.
RECURSIVE ForwardItem(_, _)
ForwardItem(bytes, i) ==
    LET n == bc_next(bytes)
    IN  IF i = 0 \/ n.result.kind # "Ok" THEN n.result
        ELSE ForwardItem(n.bytes, i - 1)

\* C6: on a RandomAccessBinaryCollection of n sequences, get(i) for i < n is
\* Some of the sequence that forward iteration over the same buffer yields
\* as its i-th item (never the branch marked unreachable), get(i) for
\* i >= n is None, at(i) is the same sequence for i < n and panics for
\* i >= n.
C6_RandomAccess ==
    (comp = "bc" /\ pc = "rac" /\ got.op \in {"get", "at"}) =>
        IF got.index < Len(rac.offsets)
        THEN /\ got.result.kind = "Ok"
             /\ ForwardItem(writer, got.index) = Ok(sequence)
        ELSE got.result.kind = IF got.op = "get" THEN "None" ELSE "Panic"

\* at() of the last of two sequences, the first of which is not empty.
C6_Witness ==
    /\ comp = "bc" /\ pc = "rac" /\ got.op = "at"
    /\ Len(rac.offsets) = 2 /\ got.index = 1
    /\ rac.offsets[2] > 4
    /\ got.result.kind = "Ok"
    /\ sequence.length = 1

\* ========================================================================
\* Payload vector (src/src/payload_vector.rs)
\* ========================================================================

\* b'\n' and b'\r' as bytes of the scaled width, and two other bytes.
LF == 2
CR == 3
TextBytes == {0, LF, CR}

\* The byte strings the model collects.
PvStrings == {<<>>, <<0>>, <<1>>, <<1, 0>>}

\* The u64 values a corrupted header integer is given.
U64Vals == {0, 1, 3, U64_MAX - 1, U64_MAX}

\* Results of the accesses: kind is "Some", "None" or "Panic".
PvSome(v) == [kind |-> "Some", val |-> v]
PvNone == [kind |-> "None", val |-> <<>>]
PvPanic == [kind |-> "Panic", val |-> <<>>]

\* Sum of the lengths of the first i items.
RECURSIVE PayloadOffset(_, _)
PayloadOffset(its, i) == IF i = 0 THEN 0 ELSE Len(its[i]) + PayloadOffset(its, i - 1)

\* Faulty variant: the count written first is never patched and stays 0.
from_iter_unpatched(its) ==
    to_le_bytes(0, 8)
        \o Flatten([i \in 1 .. (Len(its) + 1) |-> to_le_bytes(PayloadOffset(its, i - 1), 8)])
        \o Flatten(its)

\* FromIterator for PayloadVector: the count, the offsets 0, o_1, .., o_L,
\* then the payloads back to back; every integer is 8 bytes, little-endian.
from_iter(its) ==
    to_le_bytes(Len(its), 8)
        \o Flatten([i \in 1 .. (Len(its) + 1) |-> to_le_bytes(PayloadOffset(its, i - 1), 8)])
        \o Flatten(its)

\* PayloadSlice::write: write_all(&self.data), then flush.
pv_write(data) == data

\* PayloadSlice::int_at: indexing data[offset..offset + 8] panics unless the
\* range lies inside data.
int_at(data, offset) ==
    IF offset + 8 <= Len(data)
    THEN PvSome(from_le_bytes(SubSeq(data, offset + 1, offset + 8)))
    ELSE PvPanic

\* PayloadSlice::len.
pv_len(data) == int_at(data, 0)

\* usize arithmetic: the exact value with overflow checks (where a value
\* past USIZE_MAX panics), the value modulo 2^64 without.
Overflows(v) == v > USIZE_MAX
Wrap(v) == v % (USIZE_MAX + 1)

\* Faulty variant: an index equal to the length is let through.
pv_get_inclusive(data, index, checks) ==
    LET length == pv_len(data)
    IN  IF length.kind = "Panic" THEN PvPanic
        ELSE IF index > length.val THEN PvNone
        ELSE LET payloads_offset == (length.val + 2) * 8
                 offset_pos == (index + 1) * 8
                 first == int_at(data, Wrap(offset_pos))
                 second == int_at(data, Wrap(offset_pos) + 8)
             IN  IF first.kind = "Panic" \/ second.kind = "Panic" THEN PvPanic
                 ELSE LET r == slice_get(data, Wrap(payloads_offset) + first.val,
                                         Wrap(payloads_offset) + second.val)
                      IN  IF r.some THEN PvSome(r.bytes) ELSE PvNone

\* PayloadSlice::get.
pv_get(data, index, checks) ==
    LET length == pv_len(data)
    IN  IF length.kind = "Panic" THEN PvPanic
        ELSE IF index >= length.val THEN PvNone
        ELSE LET payloads_offset == (length.val + 2) * 8
                 offset_pos == (index + 1) * 8
             IN  IF checks /\ (Overflows(payloads_offset) \/ Overflows(offset_pos))
                 THEN PvPanic
                 ELSE LET first == int_at(data, Wrap(offset_pos))
                      IN  IF first.kind = "Panic" THEN PvPanic
                          ELSE LET offset == Wrap(payloads_offset) + first.val
                               IN  IF checks /\ Overflows(offset) THEN PvPanic
                                   ELSE LET second == int_at(data, Wrap(offset_pos) + 8)
                                        IN  IF second.kind = "Panic" THEN PvPanic
                                            ELSE LET next_offset == Wrap(payloads_offset) + second.val
                                                 IN  IF checks /\ Overflows(next_offset) THEN PvPanic
                                                     ELSE LET r == slice_get(data, Wrap(offset), Wrap(next_offset))
                                                          IN  IF r.some THEN PvSome(r.bytes) ELSE PvNone

\* Index<usize>: get(index), or a panic.
pv_index(data, index, checks) ==
    LET r == pv_get(data, index, checks)
    IN  IF r.kind = "Some" THEN r ELSE PvPanic

\* PayloadIter::next, collected: get(index), get(index + 1), ... up to
\* length; a None from get ends the iteration.
RECURSIVE payload_iter(_, _, _, _)
payload_iter(data, index, length, checks) ==
    IF index = length THEN PvSome(<<>>)
    ELSE LET item == pv_get(data, index, checks)
         IN  IF item.kind = "Panic" THEN PvPanic
             ELSE IF item.kind = "None" THEN PvSome(<<>>)
             ELSE LET rest == payload_iter(data, index + 1, length, checks)
                  IN  IF rest.kind = "Panic" THEN PvPanic
                      ELSE PvSome(<<item.val>> \o rest.val)

\* PayloadSlice::iter().collect().
pv_iter(data, checks) ==
    LET length == pv_len(data)
    IN  IF length.kind = "Panic" THEN PvPanic
        ELSE payload_iter(data, 0, length.val, checks)

\* BufRead::lines(): each line up to its '\n', without the '\n' and without
\* a '\r' right before it; what follows the last '\n', if anything, is the
\* last line.
RECURSIVE FirstLF(_, _)
FirstLF(text, i) ==
    IF i > Len(text) THEN 0
    ELSE IF text[i] = LF THEN i
    ELSE FirstLF(text, i + 1)

\* Faulty variant: the '\n' is left on the line.
RECURSIVE lines_keep_newline(_)
lines_keep_newline(text) ==
    IF text = <<>> THEN <<>>
    ELSE LET k == FirstLF(text, 1)
         IN  IF k = 0 THEN <<text>>
             ELSE <<SubSeq(text, 1, k)>> \o lines_keep_newline(SubSeq(text, k + 1, Len(text)))

RECURSIVE lines(_)
lines(text) ==
    IF text = <<>> THEN <<>>
    ELSE LET k == FirstLF(text, 1)
         IN  IF k = 0 THEN <<text>>
             ELSE LET line == IF k > 1 /\ text[k - 1] = CR
                              THEN SubSeq(text, 1, k - 2)
                              ELSE SubSeq(text, 1, k - 1)
                  IN  <<line>> \o lines(SubSeq(text, k + 1, Len(text)))

\* ------------------------------------------------------------ PV actions
InitPV ==
    /\ comp = "pv"
    /\ J2CIdle
    /\ pc = "input"
    /\ BCIdle
    /\ overflow_checks \in BOOLEAN
    /\ pv_text = <<>>
    /\ pv_items = <<>>
    /\ pv_data = <<>>
    /\ pv_file = <<>>
    /\ pv_acc = NoAcc
    /\ C2PIdle
    /\ P2CIdle

\* One more byte string in the list to collect.
PvItem(item) ==
    /\ comp = "pv" /\ pc = "input"
    /\ pv_text = <<>>
    /\ Len(pv_items) < MaxItems
    /\ pv_items' = Append(pv_items, item)
    /\ UNCHANGED <<comp, j2cvars, pc, bcvars, c2pvars, p2cvars, overflow_checks, pv_text, pv_data, pv_file, pv_acc>>

\* One more byte in the text file.
PvText(b) ==
    /\ comp = "pv" /\ pc = "input"
    /\ pv_items = <<>>
    /\ Len(pv_text) < MaxText
    /\ pv_text' = Append(pv_text, b)
    /\ UNCHANGED <<comp, j2cvars, pc, bcvars, c2pvars, p2cvars, overflow_checks, pv_items, pv_data, pv_file, pv_acc>>

\* let payloads: PayloadVector = items.into_iter().collect();
PvCollect ==
    /\ comp = "pv" /\ pc = "input"
    /\ pv_text = <<>>
    /\ pv_data' = from_iter(pv_items)
    /\ pc' = "collected"
    /\ UNCHANGED <<comp, j2cvars, bcvars, c2pvars, p2cvars, overflow_checks, pv_text, pv_items, pv_file, pv_acc>>

\* payloads.write(&mut output)
PvWrite ==
    /\ comp = "pv" /\ pc = "collected"
    /\ pv_file' = pv_write(pv_data)
    /\ pc' = "written"
    /\ UNCHANGED <<comp, j2cvars, bcvars, c2pvars, p2cvars, overflow_checks, pv_text, pv_items, pv_data, pv_acc>>

\* build_lexicon(input, output): the lines of the input collected and
\* written.
BuildLexicon ==
    /\ comp = "pv" /\ pc = "input"
    /\ pv_items = <<>>
    /\ pv_items' = lines(pv_text)
    /\ pv_data' = from_iter(lines(pv_text))
    /\ pv_file' = pv_write(from_iter(lines(pv_text)))
    /\ pc' = "lexicon"
    /\ UNCHANGED <<comp, j2cvars, bcvars, c2pvars, p2cvars, overflow_checks, pv_text, pv_acc>>

\* The written file is cut to its first n bytes.
PvTruncate(n) ==
    /\ comp = "pv" /\ pc = "written" /\ pv_acc.op = "none"
    /\ n < Len(pv_file)
    /\ pv_file' = SubSeq(pv_file, 1, n)
    /\ pc' = "corrupt"
    /\ UNCHANGED <<comp, j2cvars, bcvars, c2pvars, p2cvars, overflow_checks, pv_text, pv_items, pv_data, pv_acc>>

\* The k-th 8-byte integer of the written file (0-based) is replaced by v.
PvOverwrite(k, v) ==
    /\ comp = "pv" /\ pc = "written" /\ pv_acc.op = "none"
    /\ 8 * k + 8 <= Len(pv_file)
    /\ pv_file' = SubSeq(pv_file, 1, 8 * k) \o to_le_bytes(v, 8)
                      \o SubSeq(pv_file, 8 * k + 9, Len(pv_file))
    /\ pv_file' # pv_file
    /\ pc' = "corrupt"
    /\ UNCHANGED <<comp, j2cvars, bcvars, c2pvars, p2cvars, overflow_checks, pv_text, pv_items, pv_data, pv_acc>>

pv_access(op, data, index, checks) ==
    CASE op = "len" -> LET r == pv_len(data)
                       IN  IF r.kind = "Some" THEN PvSome(<<r.val>>) ELSE r
      [] op = "get" -> pv_get(data, index, checks)
      [] op = "index" -> pv_index(data, index, checks)
      [] op = "iter" -> pv_iter(data, checks)

\* One access, made on the owned PayloadVector and on
\* PayloadSlice::new(&bytes) over the written bytes.
PvAccess(op, index) ==
    /\ comp = "pv" /\ pc \in {"written", "lexicon", "corrupt"}
    /\ pv_acc.op = "none"
    /\ pv_acc' = [op |-> op, index |-> index,
                  owned |-> pv_access(op, pv_data, index, overflow_checks),
                  slice |-> pv_access(op, pv_file, index, overflow_checks)]
    /\ UNCHANGED <<comp, j2cvars, pc, bcvars, c2pvars, p2cvars, overflow_checks, pv_text, pv_items, pv_data, pv_file>>

PvIndexVals == (0 .. (Len(pv_items) + 1)) \cup {U64_MAX}

NextPV ==
    \/ \E item \in PvStrings : PvItem(item)
    \/ \E b \in TextBytes : PvText(b)
    \/ PvCollect
    \/ PvWrite
    \/ BuildLexicon
    \/ \E n \in 0 .. (8 * (MaxItems + 2) + 2 * MaxItems) : PvTruncate(n)
    \/ \E k \in 0 .. (MaxItems + 1), v \in U64Vals : PvOverwrite(k, v)
    \/ \E index \in PvIndexVals : PvAccess("get", index) \/ PvAccess("index", index)
    \/ PvAccess("len", 0)
    \/ PvAccess("iter", 0)

SpecPV == InitPV /\ [][NextPV]_vars

\* ---------------------------------------------------- PV: the claims
\* C7: a list of byte strings collected into a PayloadVector, written, and
\* viewed through PayloadSlice::new has len() equal to the length of the
\* list and iter() yielding the strings of the list in order; the owned
\* vector and the borrowed slice give the same results.
C7_PayloadRoundTrip ==
    (comp = "pv" /\ pc = "written") =>
        /\ pv_file = pv_data
        /\ pv_acc.op = "len" => pv_acc.slice = PvSome(<<Len(pv_items)>>)
        /\ pv_acc.op = "iter" => pv_acc.slice = PvSome(pv_items)
        /\ pv_acc.op # "none" => pv_acc.owned = pv_acc.slice

\* A list with an empty string in it, iterated.
C7_Witness ==
    /\ comp = "pv" /\ pc = "written"
    /\ pv_items = << <<>>, <<1, 0>> >>
    /\ pv_acc.op = "iter"
    /\ pv_acc.slice.kind = "Some"

\* The lines of a text file, without BufRead: the positions of its '\n',
\* the number of lines, and the bytes of the i-th line (from 1), which ends
\* before its "\n" or "\r\n".
LFsOf(text) == {i \in 1 .. Len(text) : text[i] = LF}
NthLF(text, k) == CHOOSE p \in LFsOf(text) : Cardinality({q \in LFsOf(text) : q <= p}) = k
LineCount(text) ==
    Cardinality(LFsOf(text)) + (IF text # <<>> /\ text[Len(text)] # LF THEN 1 ELSE 0)
LineBytes(text, i) ==
    LET first == IF i = 1 THEN 1 ELSE NthLF(text, i - 1) + 1
        ended == i <= Cardinality(LFsOf(text))
        last == IF ended THEN NthLF(text, i) - 1 ELSE Len(text)
    IN  IF ended /\ last >= first /\ text[last] = CR
        THEN SubSeq(text, first, last - 1)
        ELSE SubSeq(text, first, last)

\* C8: for a lexicon that build_lexicon built from a text file of L lines,
\* get(i) is the bytes of line i without its newline for i < L and None for
\* i >= L; the indexed lookup [i] is the same bytes for i < L and panics
\* for i >= L.
C8_Lexicon ==
    (comp = "pv" /\ pc = "lexicon" /\ pv_acc.op \in {"get", "index"}) =>
        IF pv_acc.index < LineCount(pv_text)
        THEN pv_acc.slice = PvSome(LineBytes(pv_text, pv_acc.index + 1))
        ELSE pv_acc.slice = IF pv_acc.op = "get" THEN PvNone ELSE PvPanic

\* get(L) on a lexicon of L = 2 lines.
C8_Witness ==
    /\ comp = "pv" /\ pc = "lexicon"
    /\ LineCount(pv_text) = 2
    /\ pv_acc.op = "get" /\ pv_acc.index = 2
    /\ pv_acc.slice = PvNone

\* C9: on every buffer given to PayloadSlice::new, truncated and corrupt
\* ones too, len and get report an entry that cannot be decoded inside the
\* buffer as none or an error, never by aborting the program.
C9_NoAbort ==
    (comp = "pv" /\ pv_acc.op \in {"len", "get"}) => pv_acc.slice.kind # "Panic"

\* ========================================================================
\* CIFF to PISA (src/src/lib.rs, Header::from_stream, write_posting_list,
\* convert_to_pisa)
\* ========================================================================

\* The i32 counts a CIFF header is drawn from.
HeaderCounts(n) == {I32_MIN, 0 - 1, I32_MAX} \cup (0 .. n)

\* proto::Header as read from the stream; present = FALSE is a stream that
\* ends before a header could be read.
ProtoHeaders ==
    {[present |-> TRUE, num_docs |-> d, num_postings_lists |-> p] :
        d \in HeaderCounts(MaxRecords), p \in HeaderCounts(MaxLists)}
    \cup {[present |-> FALSE, num_docs |-> 0, num_postings_lists |-> 0]}

\* u32::try_from(i32) and ToPrimitive::to_u32: the value, if it is a u32.
to_u32(v) ==
    IF v >= 0 /\ v <= U32_MAX THEN [ok |-> TRUE, val |-> v]
    ELSE [ok |-> FALSE, val |-> 0]

HeaderErr == [kind |-> "Err", num_documents |-> 0, num_postings_lists |-> 0]

\* Header::from_stream that checks the document count only and casts the
\* number of postings lists.
from_stream_docs_only(h) ==
    IF ~h.present \/ ~to_u32(h.num_docs).ok THEN HeaderErr
    ELSE [kind |-> "Ok", num_documents |-> h.num_docs,
          num_postings_lists |-> h.num_postings_lists % U32_MOD]

\* Header::from_stream: the error of read_message, or of either try_from.
from_stream(h) ==
    IF ~h.present THEN HeaderErr
    ELSE IF ~to_u32(h.num_docs).ok THEN HeaderErr
    ELSE IF ~to_u32(h.num_postings_lists).ok THEN HeaderErr
    ELSE [kind |-> "Ok", num_documents |-> to_u32(h.num_docs).val,
          num_postings_lists |-> to_u32(h.num_postings_lists).val]

\* proto::Posting and proto::PostingsList.
Posting(d, t) == [docid |-> d, tf |-> t]
PostingsListOf(t, d, ps) == [term |-> t, df |-> d, postings |-> ps]

\* The postings lists a stream is drawn from: regular ones, one whose df is
\* not its number of postings, a df that is no u32, a negative docid, a
\* negative tf, and gaps whose sum is no u32.
PostingsLists ==
    { PostingsListOf(<<1>>, 2, <<Posting(1, 1), Posting(2, 1)>>),
      PostingsListOf(<<0>>, 1, <<Posting(0, 2)>>),
      PostingsListOf(<<0>>, 0, <<>>),
      PostingsListOf(<<1>>, 2, <<Posting(1, 1)>>),
      PostingsListOf(<<0>>, 0 - 1, <<Posting(1, 1)>>),
      PostingsListOf(<<0>>, U32_MOD, <<Posting(1, 1)>>),
      PostingsListOf(<<0>>, 2, <<Posting(1, 1), Posting(0 - 1, 1)>>),
      PostingsListOf(<<0>>, 2, <<Posting(1, 0 - 1), Posting(1, 1)>>),
      PostingsListOf(<<1>>, 3, <<Posting(I32_MAX, 1), Posting(I32_MAX, 1), Posting(2, 1)>>) }

\* The scan of write_posting_list: the running sums of the docids, up to
\* the first that panics (a negative docid, or an overflow of the sum in a
\* build that checks for it).
RECURSIVE scan_docids(_, _, _)
scan_docids(postings, prev, checks) ==
    IF postings = <<>> THEN [panic |-> FALSE, vals |-> <<>>]
    ELSE LET d == to_u32(Head(postings).docid)
             sum == prev + d.val
         IN  IF ~d.ok \/ (sum > U32_MAX /\ checks)
             THEN [panic |-> TRUE, vals |-> <<>>]
             ELSE LET rest == scan_docids(Tail(postings), sum % U32_MOD, checks)
                  IN  [panic |-> rest.panic, vals |-> <<sum % U32_MOD>> \o rest.vals]

\* The map over the tfs, up to the first negative one.
RECURSIVE map_tfs(_)
map_tfs(postings) ==
    IF postings = <<>> THEN [panic |-> FALSE, vals |-> <<>>]
    ELSE LET t == to_u32(Head(postings).tf)
         IN  IF ~t.ok THEN [panic |-> TRUE, vals |-> <<>>]
             ELSE LET rest == map_tfs(Tail(postings))
                  IN  [panic |-> rest.panic, vals |-> <<t.val>> \o rest.vals]

\* write_posting_list: how it ends and the bytes it hands to each writer.
write_posting_list(pl, checks) ==
    LET length == to_u32(pl.df)
        docs == scan_docids(pl.postings, 0, checks)
        tfs == map_tfs(pl.postings)
        nothing == [kind |-> "Err", documents |-> <<>>, frequencies |-> <<>>, terms |-> <<>>]
    IN  IF ~length.ok THEN nothing
        ELSE IF docs.panic
        THEN [nothing EXCEPT !.kind = "Panic",
                             !.documents = encode_u32_sequence(length.val, docs.vals)]
        ELSE IF tfs.panic
        THEN [nothing EXCEPT !.kind = "Panic",
                             !.documents = encode_u32_sequence(length.val, docs.vals),
                             !.frequencies = encode_u32_sequence(length.val, tfs.vals)]
        ELSE [kind |-> "Ok",
              documents |-> encode_u32_sequence(length.val, docs.vals),
              frequencies |-> encode_u32_sequence(length.val, tfs.vals),
              terms |-> pl.term \o <<LF>>]

\* proto::DocRecord, and the records a stream is drawn from; a
\* collection_docid is any string, "\n" among them (here for docid 0).
DocRecords ==
    {[docid |-> d, collection_docid |-> t, doclength |-> l] :
        d \in {0 - 1} \cup (0 .. MaxRecords), t \in {<<0>>, <<1>>},
        l \in {0 - 1, 1}}
    \cup {[docid |-> 0, collection_docid |-> <<LF>>, doclength |-> 1]}

\* Faulty variant: the docid of the record is not compared with the
\* number of records seen.
write_doc_record_any(r, docs_seen) ==
    LET docid == to_u32(r.docid)
        length == to_u32(r.doclength)
    IN  IF ~docid.ok \/ ~length.ok
        THEN [kind |-> "Err", sizes |-> <<>>, titles |-> <<>>]
        ELSE [kind |-> "Ok", sizes |-> to_le_bytes(length.val, 4),
              titles |-> r.collection_docid \o <<LF>>]

\* One pass of the record loop of convert_to_pisa.
write_doc_record(r, docs_seen) ==
    LET docid == to_u32(r.docid)
        length == to_u32(r.doclength)
    IN  IF ~docid.ok \/ ~length.ok \/ docid.val # docs_seen
        THEN [kind |-> "Err", sizes |-> <<>>, titles |-> <<>>]
        ELSE [kind |-> "Ok", sizes |-> to_le_bytes(length.val, 4),
              titles |-> r.collection_docid \o <<LF>>]

\* f with bytes appended.
Append_(f, bytes) == [f EXCEPT !.bytes = @ \o bytes]

\* String comparison, a < b: bytewise lexicographic, as for Rust's String.
RECURSIVE StrLess(_, _)
StrLess(a, b) ==
    IF b = <<>> THEN FALSE
    ELSE IF a = <<>> THEN TRUE
    ELSE IF Head(a) # Head(b) THEN Head(a) < Head(b)
    ELSE StrLess(Tail(a), Tail(b))

\* Faulty variant: equal neighbours count as unsorted.
RECURSIVE check_lines_strict(_, _)
check_lines_strict(ls, prev) ==
    IF ls = <<>> THEN TRUE
    ELSE IF ~StrLess(prev, Head(ls)) /\ prev # <<>> THEN FALSE
    ELSE check_lines_strict(Tail(ls), Head(ls))

\* check_lines_sorted over the lines ls, prev being the line before them.
RECURSIVE check_lines_sorted(_, _)
check_lines_sorted(ls, prev) ==
    IF ls = <<>> THEN TRUE
    ELSE IF StrLess(Head(ls), prev) THEN FALSE
    ELSE check_lines_sorted(Tail(ls), Head(ls))

\* Faulty variant: an index goes before the indices of equal terms.
RECURSIVE insert_before_equal(_, _, _)
insert_before_equal(s, i, terms) ==
    IF s = <<>> THEN <<i>>
    ELSE IF ~StrLess(terms[Head(s) + 1], terms[i + 1]) THEN <<i>> \o s
    ELSE <<Head(s)>> \o insert_before_equal(Tail(s), i, terms)

\* One index more in a sorted run of indices (from 0) into terms: it goes
\* behind every index whose term is not greater.
RECURSIVE insert_by_key(_, _, _)
insert_by_key(s, i, terms) ==
    IF s = <<>> THEN <<i>>
    ELSE IF StrLess(terms[i + 1], terms[Head(s) + 1]) THEN <<i>> \o s
    ELSE <<Head(s)>> \o insert_by_key(Tail(s), i, terms)

\* order.sort_by_key(|&i| &terms[i]): a stable sort of the indices.
RECURSIVE sort_by_key(_, _)
sort_by_key(ord, terms) ==
    IF ord = <<>> THEN <<>>
    ELSE insert_by_key(sort_by_key(SubSeq(ord, 1, Len(ord) - 1), terms),
                       ord[Len(ord)], terms)

\* binary_collection::reorder(&coll, order, &mut writer): the sequences of
\* coll at the positions of order, written one after the other; it stops
\* without success at a position that coll does not have.
RECURSIVE reorder(_, _)
reorder(c, ord) ==
    IF ord = <<>> THEN [ok |-> TRUE, bytes |-> <<>>]
    ELSE LET s == rac_get(c, Head(ord))
         IN  IF s.kind # "Ok" THEN [ok |-> FALSE, bytes |-> <<>>]
             ELSE LET rest == reorder(c, Tail(ord))
                  IN  [ok |-> rest.ok,
                       bytes |-> to_le_bytes(s.seq.length, 4) \o s.seq.bytes \o rest.bytes]

\* The steps of reorder_postings at which the file system may fail it.
FailPoints == {"tempdir", "rename", "open", "create", "write", "flush"}

\* Faulty variant: skip_first is taken as false, the order is applied from
\* the first sequence of the file on.
reorder_postings_no_skip(f, ord, skip_first, fail) ==
    LET coll_ == rac_try_from(f.bytes)
        out == reorder(coll_, ord)
    IN  IF fail \in {"tempdir", "rename"} THEN [kind |-> "Err", file |-> f]
        ELSE IF fail \in {"open", "create"} \/ coll_.state # "Ok" \/ ~out.ok
        THEN [kind |-> "Err", file |-> NoFile]
        ELSE IF fail \in {"write", "flush"} THEN [kind |-> "Err", file |-> NewFile]
        ELSE [kind |-> "Ok", file |-> Append_(NewFile, out.bytes)]

\* reorder_postings(path, order, skip_first) on the file f at path, failed
\* by the file system at step fail ("none": at no step): how it ends and
\* the file at path afterwards.  A failed write leaves all but the last
\* word in the file, a failed flush nothing.  The original moved to the
\* temporary directory is deleted with it when the function returns.
reorder_postings(f, ord, skip_first, fail) ==
    LET coll_ == rac_try_from(f.bytes)
        ord_ == IF skip_first THEN <<0>> \o [i \in 1 .. Len(ord) |-> ord[i] + 1]
                  ELSE ord
        out == reorder(coll_, ord_)
    IN  IF fail \in {"tempdir", "rename"} THEN [kind |-> "Err", file |-> f]
        ELSE IF fail = "open" \/ coll_.state # "Ok" \/ fail = "create"
        THEN [kind |-> "Err", file |-> NoFile]
        ELSE IF ~out.ok
        THEN [kind |-> "Err", file |-> Append_(NewFile, out.bytes)]
        ELSE IF fail = "write"
        THEN [kind |-> "Err",
              file |-> Append_(NewFile, SubSeq(out.bytes, 1, Len(out.bytes) - ELEMENT_SIZE))]
        ELSE IF fail = "flush"
        THEN [kind |-> "Err", file |-> NewFile]
        ELSE [kind |-> "Ok", file |-> Append_(NewFile, out.bytes)]

\* --------------------------------------------------------- C2P actions
InitC2P ==
    /\ comp = "c2p"
    /\ J2CIdle
    /\ pc = "build"
    /\ builder = CiffToPisa_default
    /\ last_setter = "none"
    /\ BCIdle
    /\ overflow_checks \in BOOLEAN
    /\ pv_text = <<>>
    /\ pv_items = <<>>
    /\ pv_data = <<>>
    /\ pv_file = <<>>
    /\ pv_acc = NoAcc
    /\ ciff_header \in ProtoHeaders
    /\ header = NoHeader
    /\ postings_read = <<>>
    /\ records_read = <<>>
    /\ output = NoOutput
    /\ c2p_result = "running"
    /\ written = NoOutput
    /\ order = <<>>
    /\ reordered = FALSE
    /\ lexicons = NoLexicons
    /\ P2CIdle

\* CiffToPisa::input_path: the input is Some.
input_path(b) == [b EXCEPT !.input = TRUE]

\* CiffToPisa::output_paths: PisaPaths::from_base_path sets all seven paths,
\* the two lexicons among them.
output_paths(b) ==
    [b EXCEPT !.documents_path = TRUE, !.frequencies_path = TRUE, !.sizes_path = TRUE,
              !.terms_path = TRUE, !.titles_path = TRUE,
              !.termlex_path = TRUE, !.doclex_path = TRUE]

\* Faulty variant: only the path of the term lexicon is cleared.
skip_lexicons_termlex_only(b) == [b EXCEPT !.termlex_path = FALSE]

\* CiffToPisa::skip_lexicons: both lexicon paths are None.
skip_lexicons(b) == [b EXCEPT !.termlex_path = FALSE, !.doclex_path = FALSE]

\* CiffToPisa::convert, lines 373-401: whether every required path is set.
paths_defined(b) ==
    /\ b.input /\ b.documents_path /\ b.frequencies_path /\ b.sizes_path
    /\ b.terms_path /\ b.titles_path

\* A call of input_path on the builder.
InputPath ==
    /\ comp = "c2p" /\ pc = "build"
    /\ builder' = input_path(builder)
    /\ UNCHANGED <<comp, j2cvars, pc, bcvars, pvvars, p2cvars, last_setter, ciff_header, header,
                   postings_read, records_read, output, c2p_result, postvars>>

\* A call of output_paths on the builder.
OutputPaths ==
    /\ comp = "c2p" /\ pc = "build"
    /\ builder' = output_paths(builder)
    /\ last_setter' = "output_paths"
    /\ UNCHANGED <<comp, j2cvars, pc, bcvars, pvvars, p2cvars, ciff_header, header,
                   postings_read, records_read, output, c2p_result, postvars>>

\* A call of skip_lexicons on the builder.
SkipLexicons ==
    /\ comp = "c2p" /\ pc = "build"
    /\ builder' = skip_lexicons(builder)
    /\ last_setter' = "skip_lexicons"
    /\ UNCHANGED <<comp, j2cvars, pc, bcvars, pvvars, p2cvars, ciff_header, header,
                   postings_read, records_read, output, c2p_result, postvars>>

\* CiffToPisa::convert: an error when a required path is undefined, and
\* convert_to_pisa otherwise.
Convert ==
    /\ comp = "c2p" /\ pc = "build"
    /\ IF paths_defined(builder)
       THEN pc' = "open" /\ UNCHANGED c2p_result
       ELSE pc' = "undefined" /\ c2p_result' = "Err"
    /\ UNCHANGED <<comp, j2cvars, bcvars, pvvars, p2cvars, buildvars, ciff_header, header,
                   postings_read, records_read, output, postvars>>

\* convert_to_pisa, lines 430-435: the input is opened and the three files
\* of the postings are created.
OpenFiles ==
    /\ comp = "c2p" /\ pc = "open"
    /\ output' = [output EXCEPT !.documents = NewFile, !.frequencies = NewFile,
                                !.terms = NewFile]
    /\ pc' = "header"
    /\ UNCHANGED <<comp, j2cvars, bcvars, pvvars, p2cvars, buildvars, postvars, ciff_header, header, postings_read,
                   records_read, c2p_result>>

\* Line 437: Header::from_stream(&mut input)?
ReadHeader ==
    /\ comp = "c2p" /\ pc = "header"
    /\ header' = from_stream(ciff_header)
    /\ IF header'.kind = "Ok"
       THEN pc' = "count" /\ UNCHANGED c2p_result
       ELSE pc' = "failed" /\ c2p_result' = "Err"
    /\ UNCHANGED <<comp, j2cvars, bcvars, pvvars, p2cvars, buildvars, postvars, ciff_header, postings_read,
                   records_read, output>>

\* Line 441: the number of documents, as the first sequence of .docs.
WriteDocCount ==
    /\ comp = "c2p" /\ pc = "count"
    /\ output' = [output EXCEPT !.documents =
                     Append_(@, encode_u32_sequence(1, <<header.num_documents>>))]
    /\ pc' = "postings"
    /\ UNCHANGED <<comp, j2cvars, bcvars, pvvars, p2cvars, buildvars, postvars, ciff_header, header, postings_read,
                   records_read, c2p_result>>

\* Lines 445-453, one pass: a PostingsList is read and written.
ReadPostingsList(pl) ==
    /\ comp = "c2p" /\ pc = "postings"
    /\ Len(postings_read) < header.num_postings_lists
    /\ Len(postings_read) < MaxLists
    /\ LET w == write_posting_list(pl, overflow_checks)
       IN  /\ output' = [output EXCEPT
                            !.documents = Append_(@, w.documents),
                            !.frequencies = Append_(@, w.frequencies),
                            !.terms = Append_(@, w.terms)]
           /\ IF w.kind = "Ok"
              THEN UNCHANGED <<pc, c2p_result>>
              ELSE pc' = "failed" /\ c2p_result' = w.kind
    /\ postings_read' = Append(postings_read, pl)
    /\ UNCHANGED <<comp, j2cvars, bcvars, pvvars, p2cvars, buildvars, postvars, ciff_header, header, records_read>>

\* The same pass on a stream that holds no further PostingsList:
\* read_message fails.
ReadPostingsListFails ==
    /\ comp = "c2p" /\ pc = "postings"
    /\ Len(postings_read) < header.num_postings_lists
    /\ pc' = "failed"
    /\ c2p_result' = "Err"
    /\ UNCHANGED <<comp, j2cvars, bcvars, pvvars, p2cvars, buildvars, postvars, ciff_header, header, postings_read,
                   records_read, output>>

\* Lines 456-468: the loop is over; .sizes and the titles are created and
\* the number of documents is written to .sizes.
StartRecords ==
    /\ comp = "c2p" /\ pc = "postings"
    /\ Len(postings_read) = header.num_postings_lists
    /\ output' = [output EXCEPT
                     !.sizes = Append_(NewFile, to_le_bytes(header.num_documents, 4)),
                     !.titles = NewFile]
    /\ pc' = "records"
    /\ UNCHANGED <<comp, j2cvars, bcvars, pvvars, p2cvars, buildvars, postvars, ciff_header, header, postings_read,
                   records_read, c2p_result>>

\* Lines 470-493, one pass: a DocRecord is read, checked and written.
ReadDocRecord(r) ==
    /\ comp = "c2p" /\ pc = "records"
    /\ Len(records_read) < header.num_documents
    /\ Len(records_read) < MaxRecords
    /\ LET w == write_doc_record(r, Len(records_read))
       IN  /\ output' = [output EXCEPT !.sizes = Append_(@, w.sizes),
                                       !.titles = Append_(@, w.titles)]
           /\ IF w.kind = "Ok"
              THEN UNCHANGED <<pc, c2p_result>>
              ELSE pc' = "failed" /\ c2p_result' = "Err"
    /\ records_read' = Append(records_read, r)
    /\ UNCHANGED <<comp, j2cvars, bcvars, pvvars, p2cvars, buildvars, postvars, ciff_header, header, postings_read>>

\* The same pass on a stream that holds no further DocRecord.
ReadDocRecordFails ==
    /\ comp = "c2p" /\ pc = "records"
    /\ Len(records_read) < header.num_documents
    /\ pc' = "failed"
    /\ c2p_result' = "Err"
    /\ UNCHANGED <<comp, j2cvars, bcvars, pvvars, p2cvars, buildvars, postvars, ciff_header, header, postings_read,
                   records_read, output>>

\* Lines 494-495: the record loop is over and the titles are flushed.
FinishRecords ==
    /\ comp = "c2p" /\ pc = "records"
    /\ Len(records_read) = header.num_documents
    /\ pc' = "sorted"
    /\ written' = output
    /\ UNCHANGED <<comp, j2cvars, bcvars, pvvars, p2cvars, buildvars, ciff_header, header, postings_read,
                   records_read, output, c2p_result, order, reordered, lexicons>>

\* Lines 497-498 and 301-305: .terms is read back; when its lines are not
\* sorted, reorder_pisa_index is entered and computes the order.
CheckSorted ==
    /\ comp = "c2p" /\ pc = "sorted"
    /\ LET terms == lines(output.terms.bytes)
       IN  IF check_lines_sorted(terms, <<>>)
           THEN pc' = "lexicons" /\ UNCHANGED <<order, reordered>>
           ELSE /\ pc' = "reorder_docs"
                /\ reordered' = TRUE
                /\ order' = sort_by_key([i \in 1 .. Len(terms) |-> i - 1], terms)
    /\ UNCHANGED <<comp, j2cvars, bcvars, pvvars, p2cvars, buildvars, ciff_header, header, postings_read,
                   records_read, output, c2p_result, written, lexicons>>

\* Line 306: reorder_postings(&paths.index.documents, &order, true)?
ReorderDocuments(fail) ==
    /\ comp = "c2p" /\ pc = "reorder_docs"
    /\ LET r == reorder_postings(output.documents, order, TRUE, fail)
       IN  /\ output' = [output EXCEPT !.documents = r.file]
           /\ IF r.kind = "Ok"
              THEN pc' = "reorder_freqs" /\ UNCHANGED c2p_result
              ELSE pc' = "failed" /\ c2p_result' = r.kind
    /\ UNCHANGED <<comp, j2cvars, bcvars, pvvars, p2cvars, buildvars, ciff_header, header, postings_read,
                   records_read, postvars>>

\* Line 307: reorder_postings(&paths.index.frequencies, &order, false)?
ReorderFrequencies(fail) ==
    /\ comp = "c2p" /\ pc = "reorder_freqs"
    /\ LET r == reorder_postings(output.frequencies, order, FALSE, fail)
       IN  /\ output' = [output EXCEPT !.frequencies = r.file]
           /\ IF r.kind = "Ok"
              THEN pc' = "reorder_terms" /\ UNCHANGED c2p_result
              ELSE pc' = "failed" /\ c2p_result' = r.kind
    /\ UNCHANGED <<comp, j2cvars, bcvars, pvvars, p2cvars, buildvars, ciff_header, header, postings_read,
                   records_read, postvars>>

\* Lines 308-312: .terms is created anew and the lines read at line 301
\* are written in the order.
RewriteTerms ==
    /\ comp = "c2p" /\ pc = "reorder_terms"
    /\ LET terms == lines(output.terms.bytes)
       IN  output' = [output EXCEPT !.terms =
               Append_(NewFile,
                       Flatten([i \in 1 .. Len(order) |-> terms[order[i] + 1] \o <<LF>>]))]
    /\ pc' = "lexicons"
    /\ UNCHANGED <<comp, j2cvars, bcvars, pvvars, p2cvars, buildvars, ciff_header, header, postings_read,
                   records_read, c2p_result, postvars>>

\* Lines 501-510: the lexicons whose paths are Some are built from .terms
\* and from the titles, and the conversion returns Ok.
BuildLexicons ==
    /\ comp = "c2p" /\ pc = "lexicons"
    /\ lexicons' =
          [termlex |-> IF builder.termlex_path
                       THEN Append_(NewFile, pv_write(from_iter(lines(output.terms.bytes))))
                       ELSE NoFile,
           doclex |-> IF builder.doclex_path
                      THEN Append_(NewFile, pv_write(from_iter(lines(output.titles.bytes))))
                      ELSE NoFile]
    /\ pc' = "done"
    /\ c2p_result' = "Ok"
    /\ UNCHANGED <<comp, j2cvars, bcvars, pvvars, p2cvars, buildvars, ciff_header, header, postings_read,
                   records_read, output, written, order, reordered>>

NextC2P ==
    \/ InputPath
    \/ OutputPaths
    \/ SkipLexicons
    \/ Convert
    \/ OpenFiles
    \/ ReadHeader
    \/ WriteDocCount
    \/ \E pl \in PostingsLists : ReadPostingsList(pl)
    \/ ReadPostingsListFails
    \/ StartRecords
    \/ \E r \in DocRecords : ReadDocRecord(r)
    \/ ReadDocRecordFails
    \/ FinishRecords
    \/ CheckSorted
    \/ \E fail \in FailPoints \cup {"none"} : ReorderDocuments(fail)
    \/ \E fail \in FailPoints \cup {"none"} : ReorderFrequencies(fail)
    \/ RewriteTerms
    \/ BuildLexicons

SpecC2P == InitC2P /\ [][NextC2P]_vars

\* --------------------------------------------------- C2P: the claims
\* C10: Header::from_stream fails exactly when num_docs or
\* num_postings_lists of the header read is negative, and otherwise
\* returns the two counts unchanged; when it fails, convert_to_pisa has
\* failed with an error, no PostingsList and no DocRecord has been read and
\* .docs, .freqs and .terms hold no byte.
C10_HeaderValidation ==
    (comp = "c2p" /\ pc \notin {"build", "undefined", "open", "header"}
     /\ ciff_header.present) =>
        LET negative == ciff_header.num_docs < 0 \/ ciff_header.num_postings_lists < 0
        IN  /\ header.kind = "Err" <=> negative
            /\ ~negative =>
                  /\ header.kind = "Ok"
                  /\ header.num_documents = ciff_header.num_docs
                  /\ header.num_postings_lists = ciff_header.num_postings_lists
            /\ negative =>
                  /\ pc = "failed" /\ c2p_result = "Err"
                  /\ postings_read = <<>> /\ records_read = <<>>
                  /\ output.documents.bytes = <<>>
                  /\ output.frequencies.bytes = <<>>
                  /\ output.terms.bytes = <<>>
                  /\ ~output.sizes.created /\ ~output.titles.created

\* A header whose number of postings lists alone is negative has been
\* refused; the three files exist and are empty.
C10_Witness ==
    /\ comp = "c2p" /\ pc = "failed"
    /\ ciff_header.present
    /\ ciff_header.num_docs > 0 /\ ciff_header.num_postings_lists < 0
    /\ header.kind = "Err"
    /\ output.documents = NewFile

\* C11: a conversion that succeeded has read num_docs records, the i-th
\* with docid i; at the first record k read whose docid is not k the
\* conversion has failed with an error, .sizes and the titles hold the
\* lengths and titles of the records before k and nothing of record k or
\* later, the reorder pass has not been entered and no lexicon is built.
C11_RecordOrder ==
    comp = "c2p" =>
        LET bad == {k \in 1 .. Len(records_read) : records_read[k].docid # k - 1}
            before == [i \in 1 .. (Len(records_read) - 1) |-> records_read[i]]
        IN  /\ c2p_result = "Ok" =>
                  /\ bad = {}
                  /\ Len(records_read) = header.num_documents
            /\ bad # {} =>
                  /\ bad = {Len(records_read)}
                  /\ pc = "failed" /\ c2p_result = "Err"
                  /\ output.sizes.bytes =
                        to_le_bytes(header.num_documents, 4) \o
                        Flatten([i \in 1 .. Len(before) |-> to_le_bytes(before[i].doclength, 4)])
                  /\ output.titles.bytes =
                        Flatten([i \in 1 .. Len(before) |-> before[i].collection_docid \o <<LF>>])
                  /\ ~reordered /\ order = <<>>
                  /\ lexicons = NoLexicons

\* Docid 2 where docid 1 was expected, after postings lists whose terms
\* are not in order.
C11_Witness ==
    /\ comp = "c2p" /\ pc = "failed"
    /\ Len(records_read) = 2
    /\ records_read[1].docid = 0 /\ records_read[2].docid = 2
    /\ ~check_lines_sorted(lines(output.terms.bytes), <<>>)
    /\ output.titles.bytes = records_read[1].collection_docid \o <<LF>>

\* The sum of the first k docid gaps of the postings ps.
RECURSIVE GapSum(_, _)
GapSum(ps, k) == IF k = 0 THEN 0 ELSE ps[k].docid + GapSum(ps, k - 1)

\* C12: while the postings lists are read, every list accepted so far has
\* added to .docs one sequence whose declared length is its number of
\* postings and whose k-th element is the sum of its first k docid gaps,
\* to .freqs one sequence of the same length holding the tfs, and to
\* .terms its term as one line; .docs starts with the sequence of the
\* document count.
C12_PostingsTranslation ==
    (comp = "c2p" /\ pc = "postings") =>
        /\ output.documents.bytes =
              encode_u32_sequence(1, <<header.num_documents>>) \o
              Flatten([i \in 1 .. Len(postings_read) |->
                  LET ps == postings_read[i].postings
                  IN  encode_u32_sequence(Len(ps), [k \in 1 .. Len(ps) |-> GapSum(ps, k)])])
        /\ output.frequencies.bytes =
              Flatten([i \in 1 .. Len(postings_read) |->
                  LET ps == postings_read[i].postings
                  IN  encode_u32_sequence(Len(ps), [k \in 1 .. Len(ps) |-> ps[k].tf])])
        /\ output.terms.bytes =
              Flatten([i \in 1 .. Len(postings_read) |-> postings_read[i].term \o <<LF>>])

\* The lines of a text file, and whether a list of lines is in
\* non-decreasing order.
LinesOf(text) == [i \in 1 .. LineCount(text) |-> LineBytes(text, i)]
NonDecreasing(ls) == \A i, j \in 1 .. Len(ls) : i < j => ~StrLess(ls[j], ls[i])

\* C13: after a successful conversion the lines of .terms are in
\* non-decreasing order; once the check of line 497 is done, the reorder
\* pass has been entered exactly if the terms as first written were not in
\* non-decreasing order, and if it has not, .docs, .freqs and .terms are as
\* first written.
C13_TermOrder ==
    comp = "c2p" =>
        /\ c2p_result = "Ok" => NonDecreasing(LinesOf(output.terms.bytes))
        /\ (written.terms.created /\ pc # "sorted") =>
              /\ reordered <=> ~NonDecreasing(LinesOf(written.terms.bytes))
              /\ ~reordered =>
                    /\ output.documents = written.documents
                    /\ output.frequencies = written.frequencies
                    /\ output.terms = written.terms

\* Two lists read in the order "1", "0": the pass ran and the conversion
\* succeeded with the terms in order.
C13_Witness ==
    /\ comp = "c2p" /\ c2p_result = "Ok"
    /\ reordered
    /\ written.terms.bytes = <<1, LF, 0, LF>>
    /\ output.terms.bytes = <<0, LF, 1, LF>>

\* The sequences of a well-formed list of words, each without its length.
RECURSIVE SeqsOf(_)
SeqsOf(w) ==
    IF w = <<>> THEN <<>>
    ELSE <<SubSeq(w, 2, w[1] + 1)>> \o SeqsOf(SubSeq(w, w[1] + 2, Len(w)))

\* The sequences of a file that is a well-formed binary collection.
FileSeqs(f) == SeqsOf(WordsOf(f.bytes))
FileWellFormed(f) == Len(f.bytes) % 4 = 0 /\ WordsWellFormed(WordsOf(f.bytes))

\* p, a list of indices from 0, is the stable sorting permutation of ls.
StableSorting(p, ls) ==
    /\ Len(p) = Len(ls)
    /\ {p[i] : i \in 1 .. Len(p)} = 0 .. (Len(ls) - 1)
    /\ \A i, j \in 1 .. Len(p) : i < j =>
          \/ StrLess(ls[p[i] + 1], ls[p[j] + 1])
          \/ ls[p[i] + 1] = ls[p[j] + 1] /\ p[i] < p[j]

\* C14: when reorder_pisa_index has run to its end on files in which every
\* term line has its sequence (n lines, n + 1 sequences in .docs, n in
\* .freqs), its order p is the stable sorting permutation of the lines,
\* new line i is old line p[i], new .freqs sequence i is old sequence
\* p[i], new .docs sequence i + 1 is old sequence p[i] + 1 and .docs
\* sequence 0 is unchanged; the files hold as many sequences as before.
C14_ReorderPermutation ==
    (/\ comp = "c2p" /\ reordered /\ pc \in {"lexicons", "done"}
     /\ FileWellFormed(written.documents) /\ FileWellFormed(written.frequencies)
     /\ Len(FileSeqs(written.documents)) = LineCount(written.terms.bytes) + 1
     /\ Len(FileSeqs(written.frequencies)) = LineCount(written.terms.bytes)) =>
        LET old == LinesOf(written.terms.bytes)
            n == Len(old)
            p == order
            freqs == FileSeqs(written.frequencies)
            docs == FileSeqs(written.documents)
        IN  /\ StableSorting(p, old)
            /\ LinesOf(output.terms.bytes) = [i \in 1 .. n |-> old[p[i] + 1]]
            /\ FileWellFormed(output.frequencies)
            /\ FileSeqs(output.frequencies) = [i \in 1 .. n |-> freqs[p[i] + 1]]
            /\ FileWellFormed(output.documents)
            /\ FileSeqs(output.documents) =
                  [i \in 1 .. (n + 1) |->
                      IF i = 1 THEN docs[1] ELSE docs[p[i - 1] + 2]]

\* Terms "1", "0", "0", the two lists of "0" with different postings: the
\* order is 1, 2, 0.
C14_Witness ==
    /\ comp = "c2p" /\ pc = "done" /\ reordered
    /\ LinesOf(written.terms.bytes) = << <<1>>, <<0>>, <<0>> >>
    /\ order = <<1, 2, 0>>
    /\ postings_read[2].postings # postings_read[3].postings
    /\ Len(FileSeqs(written.documents)) = 4
    /\ Len(FileSeqs(written.frequencies)) = 3

\* C15: once reorder_pisa_index has been entered, wherever it stands or has
\* stopped, each of .docs and .freqs holds at its path either the complete
\* content it had before or the complete permuted content.
C15_ReorderAtomic ==
    (comp = "c2p" /\ reordered /\ pc \in {"failed", "lexicons", "done"}) =>
        \A name \in {"documents", "frequencies"} :
            LET r == reorder_postings(written[name], order, name = "documents", "none")
            IN  \/ output[name] = written[name]
                \/ r.kind = "Ok" /\ output[name] = r.file

\* C25: after a successful conversion .sizes is one sequence, the number
\* of documents of the header followed by the doclength of the record with
\* docid i for every i, with no count singleton before it; and the titles
\* file has that many lines, line i being the collection_docid of the
\* record with docid i.
C25_SideFiles ==
    (comp = "c2p" /\ c2p_result = "Ok") =>
        LET n == ciff_header.num_docs
        IN  /\ Len(records_read) = n
            /\ \A i \in 1 .. n : records_read[i].docid = i - 1
            /\ WordsOf(output.sizes.bytes) =
                  <<n>> \o [i \in 1 .. n |-> records_read[i].doclength]
            /\ LineCount(output.titles.bytes) = n
            /\ \A i \in 1 .. n :
                  LineBytes(output.titles.bytes, i) = records_read[i].collection_docid

\* The docids and the tfs a PostingsList stands for, and the lists read
\* that a term line, a .docs sequence and a .freqs sequence can come from.
ListDocids(pl) == [k \in 1 .. Len(pl.postings) |-> GapSum(pl.postings, k)]
ListTfs(pl) == [k \in 1 .. Len(pl.postings) |-> pl.postings[k].tf]
ListsRead == {postings_read[k] : k \in 1 .. Len(postings_read)}

\* Two of the three files are aligned: they are well formed, hold one item
\* per term, and the items at each position come from one list read.
AlignedTermsDocs(out) ==
    LET ls == LinesOf(out.terms.bytes)
        docs == FileSeqs(out.documents)
    IN  /\ FileWellFormed(out.documents)
        /\ Len(docs) = Len(ls) + 1
        /\ \A i \in 1 .. Len(ls) : \E pl \in ListsRead :
              pl.term = ls[i] /\ ListDocids(pl) = docs[i + 1]
AlignedTermsFreqs(out) ==
    LET ls == LinesOf(out.terms.bytes)
        freqs == FileSeqs(out.frequencies)
    IN  /\ FileWellFormed(out.frequencies)
        /\ Len(freqs) = Len(ls)
        /\ \A i \in 1 .. Len(ls) : \E pl \in ListsRead :
              pl.term = ls[i] /\ ListTfs(pl) = freqs[i]
AlignedDocsFreqs(out) ==
    LET docs == FileSeqs(out.documents)
        freqs == FileSeqs(out.frequencies)
    IN  /\ FileWellFormed(out.documents) /\ FileWellFormed(out.frequencies)
        /\ Len(docs) = Len(freqs) + 1
        /\ \A i \in 1 .. Len(freqs) : \E pl \in ListsRead :
              ListDocids(pl) = docs[i + 1] /\ ListTfs(pl) = freqs[i]

\* All three files exist and line i, .docs sequence i + 1 and .freqs
\* sequence i come from one list read, for every i.
Aligned(out) ==
    LET ls == LinesOf(out.terms.bytes)
        docs == FileSeqs(out.documents)
        freqs == FileSeqs(out.frequencies)
    IN  /\ out.documents.created /\ out.frequencies.created /\ out.terms.created
        /\ FileWellFormed(out.documents) /\ FileWellFormed(out.frequencies)
        /\ Len(docs) = Len(ls) + 1
        /\ Len(freqs) = Len(ls)
        /\ \A i \in 1 .. Len(ls) : \E pl \in ListsRead :
              pl.term = ls[i] /\ ListDocids(pl) = docs[i + 1] /\ ListTfs(pl) = freqs[i]

as_i32(v) == IF v > I32_MAX THEN v - U32_MOD ELSE v

\* a - b in i32: out of range it panics in a build that checks for
\* overflow and wraps otherwise.
sub_i32(a, b, checks) ==
    LET r == a - b
    IN  IF r >= I32_MIN /\ r <= I32_MAX THEN [panic |-> FALSE, val |-> r]
        ELSE IF checks THEN [panic |-> TRUE, val |-> 0]
        ELSE [panic |-> FALSE, val |-> ((r - I32_MIN) % U32_MOD) + I32_MIN]

\* BinaryCollection's iterator run to its end: the items it yields, the
\* last of them an error if the bytes are malformed.
RECURSIVE bc_items(_)
bc_items(bytes) ==
    LET n == bc_next(bytes)
    IN  IF n.result.kind = "None" THEN <<>>
        ELSE IF n.result.kind = "Err" THEN <<n.result>>
        ELSE <<n.result>> \o bc_items(n.bytes)

\* read_document_count after BinaryCollection::try_from: the first element
\* of the first sequence, and the bytes behind that sequence.
read_document_count(bytes) ==
    LET first == bc_next(bytes)
        count == sequence_get(first.result.seq, 0)
    IN  IF bc_try_from(bytes) # "Ok" \/ first.result.kind # "Ok" \/ count.kind # "Some"
        THEN [ok |-> FALSE, val |-> 0, bytes |-> <<>>]
        ELSE [ok |-> TRUE, val |-> count.val, bytes |-> first.bytes]

\* sizes(memory): the first sequence of .sizes.
sizes(memory) ==
    IF bc_try_from(memory) # "Ok" THEN Err
    ELSE LET first == bc_next(memory)
         IN  IF first.result.kind = "Ok" THEN first.result ELSE Err

\* Iterator::sum over a list of numbers.
RECURSIVE SeqSum(_)
SeqSum(s) == IF s = <<>> THEN 0 ELSE Head(s) + SeqSum(Tail(s))

\* a as f64 / b as f64: the quotient as a fraction, or what IEEE 754 gives
\* for a zero divisor.
f64_div(a, b) ==
    IF b # 0 THEN [class |-> "finite", num |-> a, den |-> b]
    ELSE IF a = 0 THEN [class |-> "NaN", num |-> 0, den |-> 0]
    ELSE [class |-> "inf", num |-> a, den |-> 0]

\* 0.0
f64_zero == [class |-> "finite", num |-> 0, den |-> 1]

\* JsonlToCiff::convert, lines 1015-1019: the average document length of
\* the header it builds.
jsonl_average_doclength(total_terms_in_collection, num_docs) ==
    IF num_docs > 0 THEN f64_div(total_terms_in_collection, num_docs)
    ELSE f64_zero

\* header(documents_bytes, sizes_bytes, description): the proto::Header, or
\* an error.
header_(documents_bytes, sizes_bytes) ==
    LET count == read_document_count(documents_bytes)
        lists == bc_items(count.bytes)
        sz == sizes(sizes_bytes)
        doclen_sum == SeqSum(sequence_iter(sz.seq, 0))
    IN  IF ~count.ok \/ (lists # <<>> /\ lists[Len(lists)].kind = "Err") \/ sz.kind # "Ok"
        THEN [NoProtoHeader EXCEPT !.kind = "Err"]
        ELSE [kind |-> "Ok",
              num_postings_lists |-> Len(lists),
              total_postings_lists |-> Len(lists),
              total_terms_in_collection |-> doclen_sum,
              num_docs |-> as_i32(count.val),
              total_docs |-> as_i32(count.val),
              average_doclength |-> f64_div(doclen_sum, count.val)]

\* The inner loop of write_postings over docids.zip(frequencies), lines
\* 604-612: the Posting messages, or a panic of the subtraction.
RECURSIVE delta_postings(_, _, _, _)
delta_postings(docids, frequencies, last_doc, checks) ==
    IF docids = <<>> \/ frequencies = <<>> THEN [panic |-> FALSE, postings |-> <<>>]
    ELSE LET gap == sub_i32(as_i32(Head(docids)), last_doc, checks)
             rest == delta_postings(Tail(docids), Tail(frequencies),
                                    as_i32(Head(docids)), checks)
         IN  IF gap.panic \/ rest.panic THEN [panic |-> TRUE, postings |-> <<>>]
             ELSE [panic |-> FALSE,
                   postings |-> <<[docid |-> gap.val, tf |-> as_i32(Head(frequencies))]>>
                                \o rest.postings]

\* The loop of write_postings over documents.zip(frequencies).zip(lines),
\* lines 596-617: the messages written, and how the loop ended.  A zip asks
\* its first iterator, then its second, and ends when either is exhausted.
RECURSIVE postings_loop(_, _, _, _)
postings_loop(documents, frequencies, terms, checks) ==
    LET term_documents == bc_next(documents)
        term_frequencies == bc_next(frequencies)
    IN  IF term_documents.result.kind = "None" \/ term_frequencies.result.kind = "None"
           \/ terms = <<>>
        THEN [kind |-> "Ok", messages |-> <<>>]
        ELSE IF term_documents.result.kind = "Err" \/ term_frequencies.result.kind = "Err"
        THEN [kind |-> "Err", messages |-> <<>>]
        ELSE LET fs == sequence_iter(term_frequencies.result.seq, 0)
                 ps == delta_postings(sequence_iter(term_documents.result.seq, 0), fs,
                                      0, checks)
                 rest == postings_loop(term_documents.bytes, term_frequencies.bytes,
                                       Tail(terms), checks)
             IN  IF ps.panic THEN [kind |-> "Panic", messages |-> <<>>]
                 ELSE [kind |-> rest.kind,
                       messages |-> <<[term |-> Head(terms),
                                       df |-> Len(ps.postings),
                                       cf |-> SeqSum(SubSeq(fs, 1, Len(ps.postings))),
                                       postings |-> ps.postings]>> \o rest.messages]

\* write_postings(documents_mmap, frequencies_mmap, terms_file, out).
write_postings(documents_mmap, frequencies_mmap, terms_file, checks) ==
    LET count == read_document_count(documents_mmap)
    IN  IF ~count.ok \/ bc_try_from(frequencies_mmap) # "Ok"
        THEN [kind |-> "Err", messages |-> <<>>]
        ELSE postings_loop(count.bytes, frequencies_mmap, lines(terms_file), checks)

\* write_sizes(sizes_mmap, titles_file, out): one DocRecord for each pair
\* of sizes.iter().enumerate().zip(titles.lines()).
write_sizes(sizes_mmap, titles_file) ==
    LET sz == sizes(sizes_mmap)
        ss == sequence_iter(sz.seq, 0)
        titles == lines(titles_file)
        n == IF Len(ss) < Len(titles) THEN Len(ss) ELSE Len(titles)
    IN  IF sz.kind # "Ok" THEN [kind |-> "Err", messages |-> <<>>]
        ELSE [kind |-> "Ok",
              messages |-> [i \in 1 .. n |->
                  [docid |-> i - 1, collection_docid |-> titles[i],
                   doclength |-> as_i32(ss[i])]]]

\* The .docs files a conversion is run on: none, an empty leading
\* sequence, two regular ones, no documents, a count that is no i32, docids
\* that are no i32, a sequence cut short, a file cut short, and a leading
\* sequence of two values.
DocsFiles ==
    { <<>>,
      encode_u32_sequence(0, <<>>),
      encode_u32_sequence(1, <<2>>) \o encode_u32_sequence(2, <<0, 1>>)
          \o encode_u32_sequence(1, <<1>>),
      encode_u32_sequence(1, <<2>>) \o encode_u32_sequence(1, <<1>>),
      encode_u32_sequence(1, <<0>>),
      encode_u32_sequence(1, <<I32_MAX + 1>>) \o encode_u32_sequence(1, <<0>>),
      encode_u32_sequence(1, <<2>>) \o encode_u32_sequence(2, <<1, I32_MAX + 2>>),
      encode_u32_sequence(1, <<2>>) \o encode_u32_sequence(2, <<I32_MAX, I32_MAX + 1>>),
      encode_u32_sequence(1, <<2>>) \o encode_u32_sequence(2, <<0>>),
      SubSeq(encode_u32_sequence(1, <<2>>), 1, 7),
      encode_u32_sequence(2, <<2, 1>>) \o encode_u32_sequence(1, <<0>>) }

\* The .freqs files: regular, a sequence missing, none, a sequence shorter
\* than its docids, a sequence cut short, a frequency that is no i32.
FreqsFiles ==
    { encode_u32_sequence(2, <<1, 2>>) \o encode_u32_sequence(1, <<1>>),
      encode_u32_sequence(2, <<1, I32_MAX + 1>>) \o encode_u32_sequence(1, <<1>>),
      encode_u32_sequence(2, <<1, 2>>),
      <<>>,
      encode_u32_sequence(1, <<1>>) \o encode_u32_sequence(1, <<1>>),
      encode_u32_sequence(2, <<1>>) }

\* The .sizes files: regular, no sequence, an empty one, one shorter than
\* the document count, one cut short.
SizesFiles ==
    { encode_u32_sequence(2, <<1, 2>>),
      <<>>,
      encode_u32_sequence(0, <<>>),
      encode_u32_sequence(1, <<3>>),
      encode_u32_sequence(2, <<1>>) }

\* The .terms and .documents files: two lines, one line, none.
TermsFiles == { <<0, LF, 1, LF>>, <<0, LF>>, <<>> }
TitlesFiles == { <<0, LF, 1, LF>>, <<1, CR, LF>>, <<>> }

\* --------------------------------------------------------- P2C actions
\* The five files exist; overflow_checks is the build's setting.
InitP2C ==
    /\ comp = "p2c"
    /\ J2CIdle
    /\ pc = "open"
    /\ BCIdle
    /\ overflow_checks \in BOOLEAN
    /\ pv_text = <<>>
    /\ pv_items = <<>>
    /\ pv_data = <<>>
    /\ pv_file = <<>>
    /\ pv_acc = NoAcc
    /\ C2PIdle
    /\ pisa \in [documents : DocsFiles, frequencies : FreqsFiles, terms : TermsFiles,
                 sizes : SizesFiles, titles : TitlesFiles]
    /\ ciff = NoCiff
    /\ p2c_result = "running"
    /\ rt_input = NoCiff
    /\ rt_a = NoRun
    /\ rt_b = NoRun

\* pisa_to_ciff_from_paths, lines 759-770: the files are opened and mapped
\* and the output is created.  Mapping a file of no bytes may fail.
P2COpen(map_fails) ==
    /\ comp \in {"p2c", "rt"} /\ pc = "open"
    /\ map_fails => <<>> \in {pisa.documents, pisa.frequencies, pisa.sizes}
    /\ IF map_fails
       THEN pc' = "failed" /\ p2c_result' = "Err" /\ UNCHANGED ciff
       ELSE pc' = "header" /\ ciff' = [ciff EXCEPT !.created = TRUE]
                           /\ UNCHANGED p2c_result
    /\ UNCHANGED <<comp, j2cvars, bcvars, pvvars, c2pvars, pisa, rt_input, rt_a, rt_b>>

\* Lines 772-773: the header is computed and written.
P2CHeader ==
    /\ comp \in {"p2c", "rt"} /\ pc = "header"
    /\ LET h == header_(pisa.documents, pisa.sizes)
       IN  IF h.kind = "Ok"
           THEN pc' = "postings" /\ ciff' = [ciff EXCEPT !.header = h]
                                 /\ UNCHANGED p2c_result
           ELSE pc' = "failed" /\ p2c_result' = "Err" /\ UNCHANGED ciff
    /\ UNCHANGED <<comp, j2cvars, bcvars, pvvars, c2pvars, pisa, rt_input, rt_a, rt_b>>

\* Line 775: write_postings(...)?
P2CPostings ==
    /\ comp \in {"p2c", "rt"} /\ pc = "postings"
    /\ LET r == write_postings(pisa.documents, pisa.frequencies, pisa.terms,
                               overflow_checks)
       IN  /\ ciff' = [ciff EXCEPT !.postings = r.messages]
           /\ IF r.kind = "Ok"
              THEN pc' = "sizes" /\ UNCHANGED p2c_result
              ELSE pc' = "failed" /\ p2c_result' = r.kind
    /\ UNCHANGED <<comp, j2cvars, bcvars, pvvars, c2pvars, pisa, rt_input, rt_a, rt_b>>

\* Line 776: write_sizes(...)?
P2CSizes ==
    /\ comp \in {"p2c", "rt"} /\ pc = "sizes"
    /\ LET r == write_sizes(pisa.sizes, pisa.titles)
       IN  /\ ciff' = [ciff EXCEPT !.records = r.messages]
           /\ IF r.kind = "Ok"
              THEN pc' = "flush" /\ UNCHANGED p2c_result
              ELSE pc' = "failed" /\ p2c_result' = r.kind
    /\ UNCHANGED <<comp, j2cvars, bcvars, pvvars, c2pvars, pisa, rt_input, rt_a, rt_b>>

\* Lines 778-780: out.flush()?; Ok(())
P2CFlush ==
    /\ comp \in {"p2c", "rt"} /\ pc = "flush"
    /\ pc' = "done"
    /\ p2c_result' = "Ok"
    /\ UNCHANGED <<comp, j2cvars, bcvars, pvvars, c2pvars, pisa, ciff, rt_input, rt_a, rt_b>>

NextP2C ==
    \/ \E map_fails \in BOOLEAN : P2COpen(map_fails)
    \/ P2CHeader
    \/ P2CPostings
    \/ P2CSizes
    \/ P2CFlush

SpecP2C == InitP2C /\ [][NextP2C]_vars

\* ------------------------------------------------------------ P2C claims
\* C16: once PISA to CIFF has computed its header, the header has num_docs
\* = total_docs = the value of the leading sequence of .docs,
\* num_postings_lists = total_postings_lists = the number of sequences of
\* .docs after the leading one, and total_terms_in_collection = the sum of
\* the first sequence of .sizes; with no leading sequence in .docs, an
\* empty one, or no sequence in .sizes the conversion has failed.
C16_HeaderCounts ==
    (comp = "p2c" /\ pc \notin {"open", "header"}) =>
        LET d == WordsOf(pisa.documents)
            s == WordsOf(pisa.sizes)
        IN  /\ (pisa.documents = <<>> \/ d[1] = 0 \/ pisa.sizes = <<>>) =>
                   pc = "failed" /\ p2c_result = "Err" /\ ciff.header.kind = "None"
            /\ ciff.header.kind = "Ok" =>
                   /\ ciff.header.num_docs = d[2]
                   /\ ciff.header.total_docs = d[2]
                   /\ ciff.header.num_postings_lists = Len(SeqsOf(d)) - 1
                   /\ ciff.header.total_postings_lists = Len(SeqsOf(d)) - 1
                   /\ ciff.header.total_terms_in_collection = SeqSum(SubSeq(s, 2, s[1] + 1))

\* C17: the average document length of a header is
\* total_terms_in_collection / num_docs when num_docs > 0 and exactly 0.0
\* when num_docs = 0, never the result of a division by zero, in the
\* header PISA to CIFF has written and in the one JSONL to CIFF builds of
\* the same counts.
C17_AverageDoclength ==
    (comp = "p2c" /\ ciff.header.kind = "Ok" /\ ciff.header.num_docs >= 0) =>
        LET total == ciff.header.total_terms_in_collection
            n == ciff.header.num_docs
            expected == IF n > 0 THEN [class |-> "finite", num |-> total, den |-> n]
                        ELSE [class |-> "finite", num |-> 0, den |-> 1]
        IN  /\ ciff.header.average_doclength = expected
            /\ jsonl_average_doclength(total, n) = expected

\* Whether a list of numbers is strictly ascending.
StrictlyAscending(ds) == \A i, j \in 1 .. Len(ds) : i < j => ds[i] < ds[j]

\* C18: once PISA to CIFF has gone through the postings of a well-formed
\* .docs, the step has not aborted on a strictly ascending sequence, and
\* for every list written from a strictly ascending sequence the docid
\* gaps are non-negative 32-bit signed values (the first is the first
\* docid, each later one the difference to the docid before) whose prefix
\* sums, as CIFF to PISA computes them, are the docids of the sequence.
C18_DeltaInverse ==
    (/\ comp = "p2c" /\ (pc \in {"sizes", "flush", "done"} \/ p2c_result = "Panic")
     /\ WordsWellFormed(WordsOf(pisa.documents))) =>
        LET seqs == SeqsOf(WordsOf(pisa.documents))
            n == Len(ciff.postings)
        IN  /\ p2c_result = "Panic" => ~StrictlyAscending(seqs[n + 2])
            /\ \A i \in 1 .. n :
                  LET ps == ciff.postings[i].postings
                      ds == SubSeq(seqs[i + 1], 1, Len(ps))
                  IN  StrictlyAscending(seqs[i + 1]) =>
                          /\ \A k \in 1 .. Len(ps) :
                                /\ ps[k].docid >= 0 /\ ps[k].docid <= I32_MAX
                                /\ ps[k].docid = ds[k] - (IF k = 1 THEN 0 ELSE ds[k - 1])
                          /\ scan_docids(ps, 0, overflow_checks) =
                                [panic |-> FALSE, vals |-> ds]

\* C20: when PISA to CIFF has returned success, the stream holds one
\* Header, then exactly header.num_postings_lists PostingsLists, the i-th
\* with line i of the terms file, then exactly header.num_docs DocRecords
\* with the docids 0, 1, ..., the i-th with element i of the first
\* sequence of .sizes and line i of the titles file.
C20_StreamShape ==
    (comp = "p2c" /\ pc = "done" /\ p2c_result = "Ok") =>
        LET terms == LinesOf(pisa.terms)
            titles == LinesOf(pisa.titles)
            s == WordsOf(pisa.sizes)
        IN  /\ ciff.header.kind = "Ok"
            /\ Len(ciff.postings) = ciff.header.num_postings_lists
            /\ \A i \in 1 .. Len(ciff.postings) :
                  i <= Len(terms) /\ ciff.postings[i].term = terms[i]
            /\ Len(ciff.records) = ciff.header.num_docs
            /\ \A i \in 1 .. Len(ciff.records) :
                  /\ ciff.records[i].docid = i - 1
                  /\ i <= s[1] /\ ciff.records[i].doclength = s[i + 1]
                  /\ i <= Len(titles) /\ ciff.records[i].collection_docid = titles[i]

\* The sum of the tfs of a list of Posting messages.
RECURSIVE TfSum(_)
TfSum(ps) == IF ps = <<>> THEN 0 ELSE Head(ps).tf + TfSum(Tail(ps))

\* C26: every PostingsList the conversion from PISA has emitted has df
\* equal to the number of its Posting entries and cf equal to the sum of
\* their tf values.
C26_DfCf ==
    comp = "p2c" =>
        \A i \in 1 .. Len(ciff.postings) :
            /\ ciff.postings[i].df = Len(ciff.postings[i].postings)
            /\ ciff.postings[i].cf = TfSum(ciff.postings[i].postings)

\* ========================================================================
\* CIFF to PISA and back (src/tests/toy.rs, test_to_and_from_ciff)
\* ========================================================================

\* The loop of lines 445-453 run on the PostingsLists a stream holds, n
\* being the number the header declares: it fails when the stream holds
\* fewer.
RECURSIVE postings_pass(_, _, _, _)
postings_pass(out, lists, n, checks) ==
    IF n = 0 THEN [kind |-> "Ok", output |-> out]
    ELSE IF lists = <<>> THEN [kind |-> "Err", output |-> out]
    ELSE LET w == write_posting_list(Head(lists), checks)
             out_ == [out EXCEPT !.documents = Append_(@, w.documents),
                                 !.frequencies = Append_(@, w.frequencies),
                                 !.terms = Append_(@, w.terms)]
         IN  IF w.kind # "Ok" THEN [kind |-> w.kind, output |-> out_]
             ELSE postings_pass(out_, Tail(lists), n - 1, checks)

\* The loop of lines 470-493 run on the DocRecords a stream holds.
RECURSIVE records_pass(_, _, _, _)
records_pass(out, records, n, docs_seen) ==
    IF n = 0 THEN [kind |-> "Ok", output |-> out]
    ELSE IF records = <<>> THEN [kind |-> "Err", output |-> out]
    ELSE LET w == write_doc_record(Head(records), docs_seen)
             out_ == [out EXCEPT !.sizes = Append_(@, w.sizes),
                                 !.titles = Append_(@, w.titles)]
         IN  IF w.kind # "Ok" THEN [kind |-> "Err", output |-> out_]
             ELSE records_pass(out_, Tail(records), n - 1, docs_seen + 1)

\* reorder_pisa_index, lines 306-312, given the lines read, the order and
\* what the two calls of reorder_postings came to: how it ends and the
\* files it leaves.
reorder_files(out, terms, ord, docs, freqs) ==
    IF docs.kind # "Ok"
    THEN [kind |-> docs.kind, output |-> [out EXCEPT !.documents = docs.file]]
    ELSE IF freqs.kind # "Ok"
    THEN [kind |-> freqs.kind,
          output |-> [out EXCEPT !.documents = docs.file, !.frequencies = freqs.file]]
    ELSE [kind |-> "Ok",
          output |-> [out EXCEPT
              !.documents = docs.file,
              !.frequencies = freqs.file,
              !.terms = Append_(NewFile,
                  Flatten([i \in 1 .. Len(ord) |-> terms[ord[i] + 1] \o <<LF>>]))]]

\* Lines 304-307, given the lines read: the order, and the two files
\* reordered by it, the file system failing at no step.
reorder_by(out, terms, ord) ==
    reorder_files(out, terms, ord,
                  reorder_postings(out.documents, ord, TRUE, "none"),
                  reorder_postings(out.frequencies, ord, FALSE, "none"))

\* Lines 304-305: the order is the stable sort of the indices by term.
reorder_lines(out, terms) ==
    reorder_by(out, terms, sort_by_key([i \in 1 .. Len(terms) |-> i - 1], terms))

\* reorder_pisa_index on the files of out.
reorder_pisa_index(out) == reorder_lines(out, lines(out.terms.bytes))

\* What Header::from_stream reads from a CIFF stream.
stream_header(stream) ==
    from_stream([present |-> stream.header.kind = "Ok",
                 num_docs |-> stream.header.num_docs,
                 num_postings_lists |-> stream.header.num_postings_lists])

\* convert_to_pisa on a CIFF stream, lines 433-453: how the postings loop
\* ends and the files it leaves.
convert_postings(stream, checks) ==
    LET h == stream_header(stream)
        opened == [NoOutput EXCEPT !.documents = NewFile, !.frequencies = NewFile,
                                   !.terms = NewFile]
        counted == [opened EXCEPT !.documents =
                       Append_(@, encode_u32_sequence(1, <<h.num_documents>>))]
    IN  IF h.kind # "Ok" THEN [kind |-> "Err", output |-> opened]
        ELSE postings_pass(counted, stream.postings, h.num_postings_lists, checks)

\* Lines 456-495, on the files out of the postings loop.
convert_records(out, stream) ==
    LET h == stream_header(stream)
        started == [out EXCEPT
                       !.sizes = Append_(NewFile, to_le_bytes(h.num_documents, 4)),
                       !.titles = NewFile]
    IN  records_pass(started, stream.records, h.num_documents, 0)

\* Lines 497-499 and 510, no lexicon asked for: the terms are reordered if
\* they are not sorted.
convert_finish(out) ==
    IF check_lines_sorted(lines(out.terms.bytes), <<>>)
    THEN [kind |-> "Ok", output |-> out]
    ELSE reorder_pisa_index(out)

\* The CIFF streams a round trip starts from: a header and as many
\* PostingsLists and DocRecords as it declares, the terms sorted and the
\* records numbered from 0.
RoundTripLists ==
    { PostingsListOf(<<1>>, 2, <<Posting(1, 1), Posting(2, 1)>>),
      PostingsListOf(<<0>>, 1, <<Posting(0, 2)>>),
      PostingsListOf(<<0>>, 0, <<>>),
      PostingsListOf(<<1>>, 2, <<Posting(1, 1)>>),
      PostingsListOf(<<1>>, 2, <<Posting(I32_MAX, 1), Posting(1, 1)>>) }
RoundTripTitles == { <<0>>, <<1>>, <<1, CR>> }
RoundTripStreams ==
    UNION { { [created |-> TRUE,
               header |-> [NoProtoHeader EXCEPT !.kind = "Ok", !.num_docs = m,
                                                !.total_docs = m,
                                                !.num_postings_lists = n,
                                                !.total_postings_lists = n],
               postings |-> ps,
               records |-> [i \in 1 .. m |->
                   [docid |-> i - 1, collection_docid |-> ts[i], doclength |-> i]]] :
              ps \in {q \in [1 .. n -> RoundTripLists] :
                         check_lines_sorted([i \in 1 .. n |-> q[i].term], <<>>)},
              ts \in [1 .. m -> RoundTripTitles] } :
            n \in 0 .. MaxRoundTrip, m \in 0 .. MaxRoundTrip }

\* The PISA files of a conversion, as PISA to CIFF maps them.
FilesOf(out) ==
    [documents |-> out.documents.bytes, frequencies |-> out.frequencies.bytes,
     terms |-> out.terms.bytes, sizes |-> out.sizes.bytes, titles |-> out.titles.bytes]

\* ------------------------------------- C2P: the conversion as a whole
\* C29: whatever setters were called before convert, a conversion that
\* succeeds has written .termlex and .doclex exactly if the last call among
\* output_paths and skip_lexicons was output_paths; .docs, .freqs, .sizes,
\* .terms and the titles are what the stream alone determines, the same
\* with and without lexicons; and a lexicon written holds the lines of the
\* final .terms, and of the titles, in their order.
C29_Builder ==
    (comp = "c2p" /\ c2p_result = "Ok") =>
        LET stream == [header |-> [kind |-> "Ok", num_docs |-> ciff_header.num_docs,
                                   num_postings_lists |-> ciff_header.num_postings_lists],
                       postings |-> postings_read, records |-> records_read]
            listed == convert_postings(stream, overflow_checks)
            recorded == convert_records(listed.output, stream)
        IN  /\ lexicons.termlex.created <=> last_setter = "output_paths"
            /\ lexicons.doclex.created <=> last_setter = "output_paths"
            /\ output = convert_finish(recorded.output).output
            /\ lexicons.termlex.created =>
                  lexicons.termlex.bytes = pv_write(from_iter(LinesOf(output.terms.bytes)))
            /\ lexicons.doclex.created =>
                  lexicons.doclex.bytes = pv_write(from_iter(LinesOf(output.titles.bytes)))

\* Lexicons written after a reorder pass, of two terms and of one title.
C29_Witness ==
    /\ comp = "c2p" /\ c2p_result = "Ok"
    /\ last_setter = "output_paths"
    /\ reordered
    /\ written.terms.bytes = <<1, LF, 0, LF>>
    /\ lexicons.termlex.bytes = pv_write(from_iter(<< <<0>>, <<1>> >>))
    /\ lexicons.doclex.bytes = pv_write(from_iter(<< <<1>> >>))

\* ---------------------------------------------------------- RT actions
InitRT ==
    /\ comp = "rt"
    /\ J2CIdle
    /\ pc = "ciff"
    /\ BCIdle
    /\ overflow_checks \in BOOLEAN
    /\ pv_text = <<>>
    /\ pv_items = <<>>
    /\ pv_data = <<>>
    /\ pv_file = <<>>
    /\ pv_acc = NoAcc
    /\ C2PIdle
    /\ pisa = NoPisa
    /\ ciff = NoCiff
    /\ p2c_result = "running"
    /\ rt_input \in RoundTripStreams
    /\ rt_a = NoRun
    /\ rt_b = NoRun

\* toy.rs, lines 93-97: the CIFF file is converted to PISA files (A), here
\* up to the end of the postings loop.
ConvertPostingsA ==
    /\ comp = "rt" /\ pc = "ciff"
    /\ rt_a' = convert_postings(rt_input, overflow_checks)
    /\ pc' = IF rt_a'.kind = "Ok" THEN "records_a" ELSE "failed"
    /\ UNCHANGED <<comp, j2cvars, bcvars, pvvars, c2pvars, pisa, ciff, p2c_result, rt_input, rt_b>>

\* The record loop of that conversion.
ConvertRecordsA ==
    /\ comp = "rt" /\ pc = "records_a"
    /\ rt_a' = convert_records(rt_a.output, rt_input)
    /\ pc' = IF rt_a'.kind = "Ok" THEN "finish_a" ELSE "failed"
    /\ UNCHANGED <<comp, j2cvars, bcvars, pvvars, c2pvars, pisa, ciff, p2c_result, rt_input, rt_b>>

\* The end of that conversion.
ConvertFinishA ==
    /\ comp = "rt" /\ pc = "finish_a"
    /\ rt_a' = convert_finish(rt_a.output)
    /\ pc' = IF rt_a'.kind = "Ok" THEN "paths" ELSE "failed"
    /\ UNCHANGED <<comp, j2cvars, bcvars, pvvars, c2pvars, pisa, ciff, p2c_result, rt_input, rt_b>>

\* toy.rs, lines 98-104: PISA to CIFF is given the paths of the files A;
\* it then runs as under SpecP2C, from P2COpen to P2CFlush.
ConvertBack ==
    /\ comp = "rt" /\ pc = "paths"
    /\ pisa' = FilesOf(rt_a.output)
    /\ pc' = "open"
    /\ UNCHANGED <<comp, j2cvars, bcvars, pvvars, c2pvars, ciff, p2c_result, rt_input, rt_a, rt_b>>

\* toy.rs, lines 111-115: the CIFF file is converted to PISA files (B), in
\* the same three steps as A.
ConvertPostingsB ==
    /\ comp = "rt" /\ pc = "done"
    /\ rt_b' = convert_postings(ciff, overflow_checks)
    /\ pc' = IF rt_b'.kind = "Ok" THEN "records_b" ELSE "failed"
    /\ UNCHANGED <<comp, j2cvars, bcvars, pvvars, c2pvars, pisa, ciff, p2c_result, rt_input, rt_a>>

ConvertRecordsB ==
    /\ comp = "rt" /\ pc = "records_b"
    /\ rt_b' = convert_records(rt_b.output, ciff)
    /\ pc' = IF rt_b'.kind = "Ok" THEN "finish_b" ELSE "failed"
    /\ UNCHANGED <<comp, j2cvars, bcvars, pvvars, c2pvars, pisa, ciff, p2c_result, rt_input, rt_a>>

ConvertFinishB ==
    /\ comp = "rt" /\ pc = "finish_b"
    /\ rt_b' = convert_finish(rt_b.output)
    /\ pc' = IF rt_b'.kind = "Ok" THEN "compare" ELSE "failed"
    /\ UNCHANGED <<comp, j2cvars, bcvars, pvvars, c2pvars, pisa, ciff, p2c_result, rt_input, rt_a>>

NextRT ==
    \/ ConvertPostingsA
    \/ ConvertRecordsA
    \/ ConvertFinishA
    \/ ConvertBack
    \/ NextP2C
    \/ ConvertPostingsB
    \/ ConvertRecordsB
    \/ ConvertFinishB

SpecRT == InitRT /\ [][NextRT]_vars

\* C19: when a CIFF input with sorted terms has been converted to PISA
\* files A and these could be mapped (the CIFF file of the way back is
\* created only then), the conversion of A to CIFF and of that CIFF to PISA
\* files B both succeed, and .docs, .freqs, .sizes, the titles and .terms
\* of B are byte for byte those of A.
C19_RoundTrip ==
    (/\ comp = "rt" /\ rt_a.kind = "Ok" /\ ciff.created /\ pc \in {"failed", "compare"}
     /\ NonDecreasing([i \in 1 .. Len(rt_input.postings) |-> rt_input.postings[i].term])) =>
        /\ pc = "compare"
        /\ rt_b.output = rt_a.output

\* ========================================================================
\* JSONL to CIFF (src/src/lib.rs, JsonDoc, deserialize_id_to_string,
\* JsonlToCiff::convert)
\* ========================================================================

\* MIN_QUANTIZED_VALUE and MAX_QUANTIZED_VALUE.  The tfs and docids of this
\* conversion are far from the ends of i32 and are not scaled.
MIN_QUANTIZED_VALUE == 1
MAX_QUANTIZED_VALUE == 255

\* The characters of the strings of this conversion; i64::to_string and
\* u64::to_string give the decimal digits, after "-" for a negative number.
Digit(d) == <<"0", "1", "2", "3", "4", "5", "6", "7", "8", "9">>[d + 1]
RECURSIVE digits(_)
digits(n) == IF n < 10 THEN <<Digit(n)>> ELSE digits(n \div 10) \o <<Digit(n % 10)>>
to_string(n) == IF n < 0 THEN <<"-">> \o digits(0 - n) ELSE digits(n)

\* serde_json::Value as far as deserialize_id_to_string tells its variants
\* apart: a String with its text, a Number that is an i64 or u64 with its
\* value, a Number that is neither, and the variants Bool, Null, Array and
\* Object.
ValueString(s) == [kind |-> "String", s |-> s, integer |-> FALSE, n |-> 0]
ValueInteger(n) == [kind |-> "Number", s |-> <<>>, integer |-> TRUE, n |-> n]
ValueFloat == [kind |-> "Number", s |-> <<>>, integer |-> FALSE, n |-> 0]
ValueOther(kind) == [kind |-> kind, s |-> <<>>, integer |-> FALSE, n |-> 0]

IdOk(s) == [ok |-> TRUE, id |-> s]
IdErr == [ok |-> FALSE, id |-> <<>>]

\* Faulty variant: a Number that is no integer is accepted too, as "1.5".
deserialize_id_any_number(v) ==
    IF v.kind = "String" THEN IdOk(v.s)
    ELSE IF v.kind = "Number"
    THEN IF v.integer THEN IdOk(to_string(v.n)) ELSE IdOk(<<"1", ".", "5">>)
    ELSE IdErr

\* deserialize_id_to_string, lines 807-821.
deserialize_id_to_string(v) ==
    IF v.kind = "String" THEN IdOk(v.s)
    ELSE IF v.kind = "Number"
    THEN IF v.integer THEN IdOk(to_string(v.n)) ELSE IdErr
    ELSE IdErr

\* serde_json::from_str::<JsonDoc>(&line) on a line of the input: an error
\* for a line that is no JSON object or whose id is refused; a missing id
\* is the default String, a missing vector the empty map.
NoDoc == [ok |-> FALSE, id |-> <<>>, vector |-> <<>>]
from_str(line) ==
    IF ~line.object THEN NoDoc
    ELSE IF ~line.has_id THEN [ok |-> TRUE, id |-> <<>>, vector |-> line.vector]
    ELSE LET id == deserialize_id_to_string(line.id)
         IN  IF id.ok THEN [ok |-> TRUE, id |-> id.id, vector |-> line.vector]
             ELSE NoDoc

\* f64::min and f64::max of an accumulator with a finite score.
f64_min(acc, score) ==
    IF acc.class = "inf" \/ (acc.class = "finite" /\ score < acc.val) THEN F64(score)
    ELSE acc
f64_max(acc, score) ==
    IF acc.class = "-inf" \/ (acc.class = "finite" /\ score > acc.val) THEN F64(score)
    ELSE acc

\* Faulty variant: every score of the line is taken into the range.
range_line_all_scores(range, vector) ==
    LET scores == {vector[t] : t \in DOMAIN vector}
        lowest == CHOOSE x \in scores : \A y \in scores : x <= y
        highest == CHOOSE x \in scores : \A y \in scores : x >= y
    IN  IF scores = {} THEN [range EXCEPT !.lines_read = @ + 1]
        ELSE [lines_read |-> range.lines_read + 1,
              min_val |-> f64_min(range.min_val, lowest),
              max_val |-> f64_max(range.max_val, highest)]

\* Lines 889-896 on the vector of one line: min_val and max_val take in
\* the scores above 0.  The order in which a HashMap hands out its entries
\* does not matter to a minimum or a maximum.
range_line(range, vector) ==
    LET positive == {x \in {vector[t] : t \in DOMAIN vector} : x > 0}
        lowest == CHOOSE x \in positive : \A y \in positive : x <= y
        highest == CHOOSE x \in positive : \A y \in positive : x >= y
    IN  IF positive = {} THEN [range EXCEPT !.lines_read = @ + 1]
        ELSE [lines_read |-> range.lines_read + 1,
              min_val |-> f64_min(range.min_val, lowest),
              max_val |-> f64_max(range.max_val, highest)]

\* f64::round of the quotient n / d, n >= 0 and d > 0: to the nearest
\* integer, a half away from zero.
round_div(n, d) == (2 * n + d) \div (2 * d)

\* i32::clamp.
clamp(v, lo, hi) == IF v < lo THEN lo ELSE IF v > hi THEN hi ELSE v

\* Faulty variant: the score is normalized by max_score alone.
quantize_score_from_zero(score, min_score, max_score) ==
    IF score <= 0 THEN 0
    ELSE LET quantization_range == MAX_QUANTIZED_VALUE - MIN_QUANTIZED_VALUE
         IN  clamp(round_div(score * quantization_range + MIN_QUANTIZED_VALUE * max_score,
                             max_score),
                   MIN_QUANTIZED_VALUE, MAX_QUANTIZED_VALUE)

\* Lines 958-967: the quantized tf of a score.  With max_score = min_score
\* the quotient is 0.0 / 0.0, a NaN, which `as i32` turns into 0.
quantize_score(score, min_score, max_score) ==
    IF score <= 0 THEN 0
    ELSE LET quantization_range == MAX_QUANTIZED_VALUE - MIN_QUANTIZED_VALUE
             quantized ==
                 IF max_score = min_score THEN 0
                 ELSE round_div((score - min_score) * quantization_range
                                    + MIN_QUANTIZED_VALUE * (max_score - min_score),
                                max_score - min_score)
         IN  clamp(quantized, MIN_QUANTIZED_VALUE, MAX_QUANTIZED_VALUE)

\* Faulty variant: the score is rounded to the nearest integer.
score_round_i32(score) == IF score >= 0 THEN (score + 1) \div 2 ELSE 0 - ((1 - score) \div 2)

\* Line 970, `score as i32` on a score given in halves: the fraction is
\* dropped, towards zero.  (The cast saturates outside i32; no score of the
\* model is that large.)
score_as_i32(score) == IF score >= 0 THEN score \div 2 ELSE 0 - ((0 - score) \div 2)

\* Lines 955-971: the tf of one entry of the vector.
tf_of(score, quantize_, min_score, max_score) ==
    IF quantize_ THEN quantize_score(score, min_score, max_score)
    ELSE score_as_i32(score)

\* Lines 939-946: the docid of an identifier, and the map and counter after.
assign_docid(docid_map, current_docid, id) ==
    IF \E e \in docid_map : e.id = id
    THEN [docid |-> (CHOOSE e \in docid_map : e.id = id).docid,
          docid_map |-> docid_map, current_docid |-> current_docid]
    ELSE [docid |-> current_docid + 1,
          docid_map |-> docid_map \cup {[id |-> id, docid |-> current_docid + 1]},
          current_docid |-> current_docid + 1]

\* Lines 973-978 for every entry of the vector: each entry with tf > 0 is
\* pushed onto the pairs of its term.  A term occurs once in a vector, so
\* the order of the entries does not matter to the map.
push_postings(postings_map, tfs, ciff_docid) ==
    LET kept == {t \in DOMAIN tfs : tfs[t] > 0}
    IN  [t \in (DOMAIN postings_map) \cup kept |->
            (IF t \in DOMAIN postings_map THEN postings_map[t] ELSE <<>>) \o
            (IF t \in kept THEN <<[docid |-> ciff_docid, tf |-> tfs[t]]>> ELSE <<>>)]

\* Lines 938-988: one pass of the loop over the lines, on a parsed line.
read_line(l, jdoc, quantize_) ==
    LET a == assign_docid(l.docid_map, l.current_docid, jdoc.id)
        tfs == [t \in DOMAIN jdoc.vector |->
                   tf_of(jdoc.vector[t], quantize_, l.min_score, l.max_score)]
        doc_length == Cardinality({t \in DOMAIN tfs : tfs[t] > 0})
    IN  [l EXCEPT
            !.lines_read = @ + 1,
            !.docid_map = a.docid_map,
            !.current_docid = a.current_docid,
            !.max_docid = IF a.docid > @ THEN a.docid ELSE @,
            !.postings_map = push_postings(@, tfs, a.docid),
            !.total_terms_in_collection = @ + doc_length,
            !.doc_records = Append(@, [docid |-> a.docid, collection_docid |-> jdoc.id,
                                       doclength |-> doc_length])]

\* slice::sort_by_key by docid, a stable sort: insertion from the left.
RECURSIVE insert_by_docid(_, _)
insert_by_docid(sorted, x) ==
    IF sorted = <<>> THEN <<x>>
    ELSE IF sorted[Len(sorted)].docid <= x.docid THEN Append(sorted, x)
    ELSE Append(insert_by_docid(SubSeq(sorted, 1, Len(sorted) - 1), x), sorted[Len(sorted)])
RECURSIVE sort_by_docid(_)
sort_by_docid(s) ==
    IF s = <<>> THEN <<>>
    ELSE insert_by_docid(sort_by_docid(SubSeq(s, 1, Len(s) - 1)), s[Len(s)])

\* Lines 1001-1003: the entries of the map, sorted by term.
RECURSIVE sort_terms(_)
sort_terms(postings_map) ==
    IF DOMAIN postings_map = {} THEN <<>>
    ELSE LET first == CHOOSE t \in DOMAIN postings_map :
                         \A u \in DOMAIN postings_map : ~StrLess(u, t)
             rest == [u \in (DOMAIN postings_map) \ {first} |-> postings_map[u]]
         IN  <<[term |-> first, pairs |-> postings_map[first]]>> \o sort_terms(rest)

\* Lines 1007-1020: the header.
jsonl_header(num_postings_lists, num_docs, total_terms_in_collection) ==
    [kind |-> "Ok",
     num_postings_lists |-> num_postings_lists,
     total_postings_lists |-> num_postings_lists,
     total_terms_in_collection |-> total_terms_in_collection,
     num_docs |-> num_docs,
     total_docs |-> num_docs,
     average_doclength |-> jsonl_average_doclength(total_terms_in_collection, num_docs)]

\* Lines 1052-1059: the Posting messages of the sorted pairs of a term.
RECURSIVE delta_pairs(_, _)
delta_pairs(pairs, last_doc) ==
    IF pairs = <<>> THEN <<>>
    ELSE <<[docid |-> Head(pairs).docid - last_doc, tf |-> Head(pairs).tf]>>
         \o delta_pairs(Tail(pairs), Head(pairs).docid)

\* Lines 1037-1060 for one term: its PostingsList.
postings_list_of(term, posting_pairs) ==
    LET sorted == sort_by_docid(posting_pairs)
    IN  [term |-> term,
         df |-> Len(sorted),
         cf |-> SeqSum([i \in 1 .. Len(sorted) |-> sorted[i].tf]),
         postings |-> delta_pairs(sorted, 0)]

\* The terms and the vectors of the lines, scores in halves: {"0": 1.0};
\* {"0": 3.0, "1": 1.5}; {"1": 2.5, "0": 0.0}; {"0": 0.5, "1": -1.5};
\* {"0": 0.0, "1": -1.5}; {}.
JVectors ==
    { (<<0>> :> 2),
      (<<0>> :> 6) @@ (<<1>> :> 3),
      (<<1>> :> 5) @@ (<<0>> :> 0),
      (<<0>> :> 1) @@ (<<1>> :> (0 - 3)),
      (<<0>> :> 0) @@ (<<1>> :> (0 - 3)),
      <<>> }

\* The lines of an input: an object with an id and a vector, an object
\* without an id, and a line that is no JSON object.
JsonLine(id, vector) == [object |-> TRUE, has_id |-> TRUE, id |-> id, vector |-> vector]
JsonLines ==
    { JsonLine(id, v) : id \in {ValueString(<<"a">>), ValueString(<<"1">>)}, v \in JVectors }
    \cup { JsonLine(id, v) : id \in {ValueInteger(1), ValueInteger(0 - 12)},
                             v \in {(<<0>> :> 2), (<<0>> :> 6) @@ (<<1>> :> 3)} }
    \cup { JsonLine(id, (<<0>> :> 2)) :
              id \in {ValueFloat, ValueOther("Bool"), ValueOther("Null"),
                      ValueOther("Array"), ValueOther("Object")} }
    \cup { [object |-> TRUE, has_id |-> FALSE, id |-> ValueOther("Null"),
            vector |-> (<<0>> :> 6) @@ (<<1>> :> 3)],
           [object |-> FALSE, has_id |-> FALSE, id |-> ValueOther("Null"),
            vector |-> <<>>] }

\* The input files: up to MaxLines lines.
JsonlInputs == UNION {[1 .. n -> JsonLines] : n \in 0 .. MaxLines}

\* --------------------------------------------------------- J2C actions
InitJ2C ==
    /\ comp = "j2c"
    /\ pc = "start"
    /\ BCIdle
    /\ PVIdle
    /\ C2PIdle
    /\ P2CIdle
    /\ jsonl \in JsonlInputs
    /\ quantize \in BOOLEAN
    /\ score_range = NoRange
    /\ j2c = NoLocals
    /\ j2c_ciff = NoCiff
    /\ j2c_result = "running"

\* convert, lines 861-876 and 906-908: the input is opened; with quantize
\* the first pass is started, without it the range is (0.0, 0.0).
J2CStart ==
    /\ comp = "j2c" /\ pc = "start"
    /\ pc' = IF quantize THEN "range" ELSE "read"
    /\ UNCHANGED <<comp, bcvars, pvvars, c2pvars, p2cvars, j2cvars>>

\* Lines 884-896, one pass of the first loop: a line is parsed and its
\* positive scores are taken into the range.
J2CRangeLine ==
    /\ comp = "j2c" /\ pc = "range"
    /\ score_range.lines_read < Len(jsonl)
    /\ LET jdoc == from_str(jsonl[score_range.lines_read + 1])
       IN  IF jdoc.ok
           THEN /\ score_range' = range_line(score_range, jdoc.vector)
                /\ UNCHANGED <<pc, j2c_result>>
           ELSE /\ pc' = "failed"
                /\ j2c_result' = "ParseError"
                /\ UNCHANGED score_range
    /\ UNCHANGED <<comp, bcvars, pvvars, c2pvars, p2cvars, jsonl, quantize, j2c, j2c_ciff>>

\* Lines 898-905: the first loop is over; without a positive score the
\* conversion fails, otherwise the range is (min_val, max_val).
J2CRangeEnd ==
    /\ comp = "j2c" /\ pc = "range"
    /\ score_range.lines_read = Len(jsonl)
    /\ IF score_range.min_val.class # "finite" \/ score_range.max_val.class # "finite"
       THEN /\ pc' = "failed"
            /\ j2c_result' = "QuantizationError"
            /\ UNCHANGED j2c
       ELSE /\ pc' = "read"
            /\ j2c' = [j2c EXCEPT !.min_score = score_range.min_val.val,
                                  !.max_score = score_range.max_val.val]
            /\ UNCHANGED j2c_result
    /\ UNCHANGED <<comp, bcvars, pvvars, c2pvars, p2cvars, jsonl, quantize, score_range,
                   j2c_ciff>>

\* Lines 933-990, one pass of the second loop: a line is parsed, its docid
\* assigned, its postings pushed and its DocRecord built.
J2CReadLine ==
    /\ comp = "j2c" /\ pc = "read"
    /\ j2c.lines_read < Len(jsonl)
    /\ LET jdoc == from_str(jsonl[j2c.lines_read + 1])
       IN  IF jdoc.ok
           THEN /\ j2c' = read_line(j2c, jdoc, quantize)
                /\ UNCHANGED <<pc, j2c_result>>
           ELSE /\ pc' = "failed"
                /\ j2c_result' = "ParseError"
                /\ UNCHANGED j2c
    /\ UNCHANGED <<comp, bcvars, pvvars, c2pvars, p2cvars, jsonl, quantize, score_range,
                   j2c_ciff>>

\* Lines 991-1029: the loop is over; the records are sorted by docid, the
\* terms by term, the header is built, the output file is created and the
\* header written.
J2CBuild ==
    /\ comp = "j2c" /\ pc = "read"
    /\ j2c.lines_read = Len(jsonl)
    /\ j2c' = [j2c EXCEPT !.doc_records = sort_by_docid(@),
                          !.terms = sort_terms(j2c.postings_map)]
    /\ j2c_ciff' = [created |-> TRUE,
                    header |-> jsonl_header(Cardinality(DOMAIN j2c.postings_map),
                                            Len(j2c.doc_records),
                                            j2c.total_terms_in_collection),
                    postings |-> <<>>,
                    records |-> <<>>]
    /\ pc' = "postings"
    /\ UNCHANGED <<comp, bcvars, pvvars, c2pvars, p2cvars, jsonl, quantize, score_range,
                   j2c_result>>

\* Lines 1037-1063: the PostingsList of every term is written.
J2CWritePostings ==
    /\ comp = "j2c" /\ pc = "postings"
    /\ j2c_ciff' = [j2c_ciff EXCEPT !.postings =
                       [i \in 1 .. Len(j2c.terms) |->
                           postings_list_of(j2c.terms[i].term, j2c.terms[i].pairs)]]
    /\ pc' = "records"
    /\ UNCHANGED <<comp, bcvars, pvvars, c2pvars, p2cvars, jsonl, quantize, score_range,
                   j2c, j2c_result>>

\* Lines 1065-1078: the DocRecords are written, the output is flushed and
\* the conversion returns Ok.
J2CWriteRecords ==
    /\ comp = "j2c" /\ pc = "records"
    /\ j2c_ciff' = [j2c_ciff EXCEPT !.records = j2c.doc_records]
    /\ pc' = "done"
    /\ j2c_result' = "Ok"
    /\ UNCHANGED <<comp, bcvars, pvvars, c2pvars, p2cvars, jsonl, quantize, score_range, j2c>>

NextJ2C ==
    \/ J2CStart
    \/ J2CRangeLine
    \/ J2CRangeEnd
    \/ J2CReadLine
    \/ J2CBuild
    \/ J2CWritePostings
    \/ J2CWriteRecords

SpecJ2C == InitJ2C /\ [][NextJ2C]_vars

\* ------------------------------------------------------------ J2C claims
\* The identifier of an accepted line as the claims expect it: the string
\* itself, the decimal text of an integer, the empty string for no id.
ExpectedId(line) ==
    IF ~line.has_id THEN <<>>
    ELSE IF line.id.kind = "String" THEN line.id.s
    ELSE IF line.id.n = 1 THEN <<"1">>
    ELSE <<"-", "1", "2">>
IdOfLine(i) == ExpectedId(jsonl[i])

\* The line on which the identifier of line i is first seen, and the number
\* of distinct identifiers seen before that line.
FirstSeen(i) == CHOOSE f \in 1 .. i :
    IdOfLine(f) = IdOfLine(i) /\ \A j \in 1 .. (f - 1) : IdOfLine(j) # IdOfLine(i)
SeenBefore(i) == Cardinality({IdOfLine(j) : j \in 1 .. (FirstSeen(i) - 1)})

\* C21 as claimed: the k-th distinct identifier in input order has internal
\* docid k - 1, and the DocRecords written have docids 0, 1, ...,
\* num_docs - 1 in this order, num_docs being the count of the header.
C21_DenseDocids ==
    (comp = "j2c" /\ j2c_result = "Ok") =>
        /\ \A i \in 1 .. Len(jsonl) :
              [id |-> IdOfLine(i), docid |-> SeenBefore(i)] \in j2c.docid_map
        /\ Cardinality(j2c.docid_map) = Cardinality({IdOfLine(i) : i \in 1 .. Len(jsonl)})
        /\ Len(j2c_ciff.records) = j2c_ciff.header.num_docs
        /\ \A i \in 1 .. Len(j2c_ciff.records) : j2c_ciff.records[i].docid = i - 1

\* Whether an entry with this score, in halves, is to become a posting:
\* with quantize a score above 0, without it a score of 1.0 or more, whose
\* integer part is above 0.
Kept(score) == IF quantize THEN score > 0 ELSE score >= 2
KeptTerms(i) == {t \in DOMAIN jsonl[i].vector : Kept(jsonl[i].vector[t])}
LinesWith(t) == {i \in 1 .. Len(jsonl) : t \in KeptTerms(i)}
AllTerms == UNION {DOMAIN jsonl[i].vector : i \in 1 .. Len(jsonl)}

\* The PostingsLists written for a term.
ListsOf(t) == {k \in 1 .. Len(j2c_ciff.postings) : j2c_ciff.postings[k].term = t}

\* C27 as claimed: the PostingsLists written are in strictly ascending
\* order of term, one for every term that has a posting, and in every list
\* the first docid gap is >= 0 and every later gap is > 0.
C27_EmissionOrder ==
    (comp = "j2c" /\ pc \in {"records", "done"}) =>
        LET lists == j2c_ciff.postings
        IN  /\ \A i, k \in 1 .. Len(lists) : i < k => StrLess(lists[i].term, lists[k].term)
            /\ {lists[k].term : k \in 1 .. Len(lists)} = {t \in AllTerms : LinesWith(t) # {}}
            /\ \A k \in 1 .. Len(lists) :
                  /\ lists[k].postings # <<>>
                  /\ lists[k].postings[1].docid >= 0
                  /\ \A n \in 2 .. Len(lists[k].postings) : lists[k].postings[n].docid > 0

\* The total number of Posting messages written.
RECURSIVE PostingsCount(_)
PostingsCount(lists) ==
    IF lists = <<>> THEN 0 ELSE Len(Head(lists).postings) + PostingsCount(Tail(lists))

\* The sum of the doclengths of a list of DocRecords.
RECURSIVE DoclengthSum(_)
DoclengthSum(records) ==
    IF records = <<>> THEN 0 ELSE Head(records).doclength + DoclengthSum(Tail(records))

DfCfJsonl ==
    comp = "j2c" =>
        \A i \in 1 .. Len(j2c_ciff.postings) :
            /\ j2c_ciff.postings[i].df = Len(j2c_ciff.postings[i].postings)
            /\ j2c_ciff.postings[i].cf = TfSum(j2c_ciff.postings[i].postings)

\* The scores above 0 of the whole input, and the k-th line, in input
\* order, that has a score above 0 for term t.
PositiveScores ==
    UNION {{x \in {jsonl[i].vector[t] : t \in DOMAIN jsonl[i].vector} : x > 0} :
              i \in 1 .. Len(jsonl)}
PositiveLines(t) ==
    {i \in 1 .. Len(jsonl) : t \in DOMAIN jsonl[i].vector /\ jsonl[i].vector[t] > 0}
NthLine(S, k) == CHOOSE i \in S : Cardinality({j \in S : j <= i}) = k

\* The scores above 0 with the tf each was given: the k-th pair pushed for
\* a term comes from the k-th line that has a score above 0 for it.
Quantized ==
    UNION {{[score |-> jsonl[NthLine(PositiveLines(t), k)].vector[t],
             tf |-> j2c.postings_map[t][k].tf] :
                k \in 1 .. Len(j2c.postings_map[t])} : t \in DOMAIN j2c.postings_map}

NoPositiveScore == PositiveScores = {}

\* Every line of the input is a JSON object whose id, if it has one, is a
\* string or an integer.
AllLinesParse ==
    \A i \in 1 .. Len(jsonl) :
        /\ jsonl[i].object
        /\ jsonl[i].has_id =>
              \/ jsonl[i].id.kind = "String"
              \/ jsonl[i].id.kind = "Number" /\ jsonl[i].id.integer

\* C23: with quantize, on an input without a score above 0, the second
\* pass is never started and the output is never created, and the
\* conversion ends with an error, which is the quantization error raised
\* after the last line of the first pass when every line parses; without
\* quantize the first pass reads no line and that error does not occur.
C23_QuantizationFailure ==
    comp = "j2c" =>
        /\ (quantize /\ NoPositiveScore) =>
              /\ pc \in {"start", "range", "failed"}
              /\ j2c = NoLocals
              /\ ~j2c_ciff.created
              /\ pc = "failed" => j2c_result \in {"QuantizationError", "ParseError"}
              /\ (pc = "failed" /\ AllLinesParse) =>
                    /\ j2c_result = "QuantizationError"
                    /\ score_range.lines_read = Len(jsonl)
        /\ ~quantize =>
              /\ score_range = NoRange
              /\ j2c_result # "QuantizationError"

\* Two lines with the scores 0.0 and -1.5 only, both read by the first
\* pass, and the error.
C23_Witness ==
    /\ comp = "j2c" /\ quantize /\ pc = "failed"
    /\ j2c_result = "QuantizationError"
    /\ Len(jsonl) = 2
    /\ jsonl[1].vector = (<<0>> :> 0) @@ (<<1>> :> (0 - 3))
    /\ jsonl[2].vector = (<<0>> :> 0) @@ (<<1>> :> (0 - 3))
    /\ score_range.lines_read = 2
    /\ ~j2c_ciff.created

\* The id of a line is of a type that is refused.
BadId(line) ==
    /\ line.object /\ line.has_id
    /\ ~(line.id.kind = "String" \/ (line.id.kind = "Number" /\ line.id.integer))

\* C24: a line the second pass has accepted has as identifier its JSON
\* string, or the decimal text of its JSON integer; a line whose id is of
\* another type is never accepted by either pass: the pass that reaches it
\* fails with a parse error, and the conversion writes nothing.
C24_IdCoercion ==
    comp = "j2c" =>
        /\ pc \in {"read", "failed"} =>
              \A i \in 1 .. Len(j2c.doc_records) :
                  /\ ~BadId(jsonl[i])
                  /\ j2c.doc_records[i].collection_docid = IdOfLine(i)
        /\ \A i \in 1 .. Len(jsonl) : BadId(jsonl[i]) =>
              /\ score_range.lines_read < i /\ j2c.lines_read < i
              /\ pc \notin {"postings", "records", "done"}
              /\ ~j2c_ciff.created
              /\ pc = "failed" => j2c_result = "ParseError"

\* A line with id -12 accepted as "-12", and then a line with a float id
\* refused by the second pass.
C24_Witness ==
    /\ comp = "j2c" /\ ~quantize /\ pc = "failed"
    /\ j2c_result = "ParseError"
    /\ Len(jsonl) = 2
    /\ jsonl[1].id = ValueInteger(0 - 12)
    /\ jsonl[2].id = ValueFloat
    /\ Len(j2c.doc_records) = 1
    /\ j2c.doc_records[1].collection_docid = <<"-", "1", "2">>

\* ========================================================================
Init == InitBC \/ InitPV \/ InitC2P \/ InitP2C \/ InitRT \/ InitJ2C
Next == NextBC \/ NextPV \/ NextC2P \/ NextP2C \/ NextRT \/ NextJ2C
Spec == Init /\ [][Next]_vars
=============================================================================
